---------------------------- MODULE Spec2Model ----------------------------
(***************************************************************************)
(* State-machine model of src/script.js (eJuuz main script): the eJuuzApp  *)
(* instance, its element cache, listener and observer registries, the      *)
(* widget state {isNavOpen, isChatOpen, currentSection, scrollPosition,    *)
(* deviceType}, the DOM attributes the handlers write, and the timers the  *)
(* handlers schedule.  Every handler runs to completion (one action each). *)
(***************************************************************************)
EXTENDS Integers, Sequences, FiniteSets, TLC

VARIABLES
    present,        \* ids/classes of the optional elements in the document
    caps,           \* what the browser offers: connection, nativeLazy, io,
                    \* window.dataLayer
    fault,          \* where cacheElements throws: "none", "query", "create"
    app,            \* window.eJuuzApp: "none", "live", "destroyed"
    elements,       \* this.elements: [defined, nodes]
    eventListeners, \* this.eventListeners (the registry)
    attached,       \* listeners the instance has attached and not removed
    observers,      \* this.observers (the registry)
    activeObs,      \* observers / media-query listeners still connected
    boot,           \* [count, surface, errHandlers]: what initApp installed
    probe,          \* what the last call or event did (observations)
    win,            \* [innerWidth, pageYOffset]
    state,          \* this.state
    dom,            \* attributes, classes and nodes written by the handlers
    timers          \* pending setTimeout callbacks and wrapper flags

envVars  == <<present, caps, fault>>
lifeVars == <<app, elements, eventListeners, attached, observers, activeObs>>
pageVars == <<state, dom, timers>>
vars == <<present, caps, fault, app, elements, eventListeners, attached,
          observers, activeObs, boot, probe, win, state, dom, timers>>

-----------------------------------------------------------------------------
(* Bounds of the model *)

MaxBoot == 2
MaxSubmits == 2
MaxNodes == 2
MaxFocusTimers == 1
RandomDen == 2
MaxStrLen == 6
MaxWidth == 1100
MaxWait == 2
MaxCalls == 3
MaxTime == 5
MaxAnimations == 2

-----------------------------------------------------------------------------
(* CONFIG *)

MOBILE_BREAKPOINT == 768
TABLET_BREAKPOINT == 1024
SCROLL_THRESHOLD == 80
CHAT_MIN_RESPONSE_TIME == 1000
CHAT_MAX_RESPONSE_TIME == 3000

-----------------------------------------------------------------------------
(* The document *)

ElementNames ==
    {"nav", "navToggle", "navList", "header", "chatToggle", "chatPanel",
     "chatForm", "chatStatus", "chatClose", "chatMessages",
     "newsletterForm", "loadingSpinner", "backToTop"}

FullDoc == ElementNames

\* Document variants the model starts from.
Docs ==
    {FullDoc,
     FullDoc \ {"backToTop"},
     FullDoc \ {"backToTop", "nav"},
     FullDoc \ {"backToTop", "chatPanel"}}

\* section[id] elements: id, offsetTop, offsetHeight (document order).
Sections ==
    <<[id |-> "home", top |-> 0, height |-> 500],
      [id |-> "about", top |-> 500, height |-> 700],
      [id |-> "contact", top |-> 1200, height |-> 800]>>

SectionIds == {Sections[i].id : i \in 1..Len(Sections)}

\* ids of elements that are not section elements (looked up by
\* cacheElements as '#nav' and '#chat-panel').
OtherIds == {"nav", "chat-panel"}

IdElement(id) == IF id = "nav" THEN "nav" ELSE "chatPanel"

\* document.getElementById(id) finds an element.
HasId(id) ==
    \/ id \in SectionIds
    \/ id \in OtherIds /\ IdElement(id) \in present

\* href values of the '#nav-list a' links.
NavLinkHrefs == {"#home", "#about", "#contact", "pricing.html"}

\* the page's img[data-src][loading="lazy"]: offsetTop, offsetHeight and
\* the two attributes the lazy-load paths select on; it lies inside the
\* viewport horizontally
Image == [top |-> 900, height |-> 300, dataSrc |-> TRUE, lazy |-> TRUE]

\* window.innerHeight
InnerHeight == 800

Widths == {767, 768, 1024}
Offsets == {0, 350, 450, 1150, 2000}
HeaderHeight == 50


-----------------------------------------------------------------------------
(* utils *)

\* getDeviceType with the breakpoints on the wrong side
getDeviceTypeInclusive(width) ==
    IF width <= MOBILE_BREAKPOINT THEN "mobile"
    ELSE IF width <= TABLET_BREAKPOINT THEN "tablet"
    ELSE "desktop"

\* utils.getDeviceType, with window.innerWidth as its argument
getDeviceType(width) ==
    IF width < MOBILE_BREAKPOINT THEN "mobile"
    ELSE IF width < TABLET_BREAKPOINT THEN "tablet"
    ELSE "desktop"

\* String(bool), as setAttribute stores it
BoolStr(b) == IF b THEN "true" ELSE "false"

-----------------------------------------------------------------------------
(* Construction: constructor, init, cacheElements, setupEventListeners,    *)
(* initModules, setupObservers, optimizePerformance                         *)

InitialState(width) ==
    [isNavOpen |-> FALSE,
     isChatOpen |-> FALSE,
     currentSection |-> "home",
     scrollPosition |-> 0,
     deviceType |-> getDeviceType(width)]

\* cacheElements throws while the object literal is evaluated: the
\* assignment to this.elements never happens.
CacheThrowsInQuery == fault = "query"

\* cacheElements throws inside createBackToTopButton: this.elements is
\* assigned, backToTop stays null.
CacheThrowsInCreate == fault = "create" /\ "backToTop" \notin present

\* this.elements after cacheElements; created: the nodes of the cache that
\* createBackToTopButton made
cacheElements ==
    IF CacheThrowsInQuery
    THEN [defined |-> FALSE, nodes |-> {}, created |-> {}]
    ELSE IF CacheThrowsInCreate
    THEN [defined |-> TRUE, nodes |-> present, created |-> {}]
    ELSE [defined |-> TRUE, nodes |-> present \cup {"backToTop"},
          created |-> {"backToTop"} \ present]

\* the listeners setupEventListeners and observeNavigationState attach and
\* push to this.eventListeners
RecordedListeners(nodes) ==
    (IF "navToggle" \in nodes THEN {"navToggle.click"} ELSE {})
    \cup (IF "navList" \in nodes THEN {"navLink.click"} ELSE {})
    \cup (IF "chatToggle" \in nodes THEN {"chatToggle.click"} ELSE {})
    \cup (IF "chatClose" \in nodes THEN {"chatClose.click"} ELSE {})
    \cup (IF "chatForm" \in nodes
          THEN {"chatForm.submit", "chatInput.blur", "chatInput.input"}
          ELSE {})
    \cup (IF "newsletterForm" \in nodes
          THEN {"newsletterForm.submit", "form.submit"}
          ELSE {})
    \cup (IF "backToTop" \in nodes THEN {"backToTop.click"} ELSE {})
    \cup {"window.scroll", "window.resize", "window.load",
          "document.keydown", "document.click", "document.visibilitychange",
          "window.popstate", "window.locationchange"}

\* the listeners the instance attaches during init: the recorded ones, the
\* touchstart/touchmove listeners of setupPassiveEventListeners, and the
\* 'change' listener of observeNetworkStatus
setupEventListeners(nodes) ==
    RecordedListeners(nodes)
    \cup {"document.touchstart", "document.touchmove"}
    \cup (IF caps.connection THEN {"connection.change"} ELSE {})

\* the observers pushed to this.observers by initIntersectionObserver and
\* observeSystemPreferences
RecordedObservers ==
    (IF caps.io THEN {"reveal"} ELSE {}) \cup {"mqDark", "mqMotion"}

\* the observers the instance creates: the recorded ones and the image
\* observer of setupLazyLoadFallback
setupObservers ==
    RecordedObservers
    \cup (IF ~caps.nativeLazy /\ caps.io THEN {"lazy"} ELSE {})

\* a form control: the attributes validateField reads, its value, and the
\* error class and aria-invalid attribute validateField writes
BlankField(type) ==
    [required |-> TRUE, type |-> type, minLength |-> -1, value |-> <<>>,
     error |-> FALSE, ariaInvalid |-> "unset"]

\* the chat form's controls as FormData sees them, all empty
BlankChatFields == [name |-> <<>>, email |-> <<>>, message |-> <<>>]

InitialDom ==
    [navMobileActive |-> FALSE,
     toggleActive |-> FALSE,
     navAriaExpanded |-> "unset",
     overflow |-> "",
     chatAriaHidden |-> "unset",
     chatAriaExpanded |-> "unset",
     focus |-> "body",
     chatStatus |-> "none",
     transcript |-> 0,
     btnDisabled |-> FALSE,
     btnBusy |-> FALSE,
     btnLabel |-> "Send",
     btnOriginal |-> "unset",
     formDirty |-> FALSE,
     headerScrolled |-> FALSE,
     backToTopVisible |-> FALSE,
     activeLinks |-> {},
     slowConnection |-> FALSE,
     imgLoaded |-> FALSE,
     imgSrc |-> "placeholder",
     imgUnobserved |-> FALSE,
     anim |-> [inView |-> FALSE, animated |-> FALSE, transform |-> "",
               opacity |-> "", transition |-> ""],
     srNodes |-> 0,
     toast |-> "none",
     chatFields |-> BlankChatFields,
     chatInput |-> BlankField("text"),
     emailInput |-> BlankField("email"),
     nlBusy |-> FALSE]

\* a wrapper made by utils.debounce or utils.throttle around a function
\* that records its calls: the closure variables (timeout, inThrottle), the
\* timers it has set and not cleared, and the log of the wrapped function
InitialWrapper ==
    [made |-> FALSE,
     wait |-> 0,
     timeout |-> 0,
     inThrottle |-> FALSE,
     pending |-> {},
     nextId |-> 1,
     ran |-> <<>>,
     calls |-> <<>>]

InitialTimers ==
    [now |-> 0,
     deb |-> InitialWrapper,
     thr |-> InitialWrapper,
     animStart |-> 0,
     animClean |-> 0,
     resize |-> FALSE,
     inThrottle |-> FALSE,
     inflight |-> 0,
     submits |-> 0,
     autoClose |-> <<>>,
     clear |-> 0,
     focus |-> 0,
     nlInflight |-> 0]

\* The page: what the handlers read and write.
M == [state |-> state, dom |-> dom, timers |-> timers, win |-> win]

Set(Q) ==
    /\ state' = Q.state
    /\ dom' = Q.dom
    /\ timers' = Q.timers
    /\ win' = Q.win


-----------------------------------------------------------------------------
(* State management: updateNavState, updateChatState *)

Has(name) == name \in elements.nodes

\* this.elements[name].member: a TypeError when the cached value is null,
\* which nothing in the class catches for an event handler (win.uncaught)
Deref(P, name) ==
    IF Has(name) THEN P ELSE [P EXCEPT !.win.uncaught = TRUE]

\* the writes of updateNavState to the nav and its toggle
WriteNavState(P) ==
    [Deref(Deref(P, "nav"), "navToggle") EXCEPT
        !.dom.navMobileActive = P.state.isNavOpen,
        !.dom.toggleActive = P.state.isNavOpen,
        !.dom.navAriaExpanded = BoolStr(P.state.isNavOpen),
        !.dom.overflow =
            IF P.state.deviceType = "mobile"
            THEN (IF P.state.isNavOpen THEN "hidden" ELSE "")
            ELSE @]

\* updateNavState without its early return
updateNavStateUnguarded(P) == WriteNavState(P)

updateNavState(P) ==
    IF ~Has("nav") \/ ~Has("navToggle") THEN P ELSE WriteNavState(P)

updateChatState(P) ==
    IF ~Has("chatPanel") \/ ~Has("chatToggle") THEN P
    ELSE [Deref(Deref(P, "chatPanel"), "chatToggle") EXCEPT
            !.dom.chatAriaHidden = BoolStr(~P.state.isChatOpen),
            !.dom.chatAriaExpanded = BoolStr(P.state.isChatOpen)]

\* announceStateChange: appends an sr-only node, removed 1000 ms later
announceStateChange(P) == [P EXCEPT !.dom.srNodes = @ + 1]

\* element?.focus()
FocusOn(P, name) == IF Has(name) THEN [P EXCEPT !.dom.focus = name] ELSE P

-----------------------------------------------------------------------------
(* Public methods: openNav, closeNav, openChat, closeChat *)

\* openNav written as a toggle (what handleNavToggle does)
openNavAsToggle(P) ==
    announceStateChange(
        updateNavState([P EXCEPT !.state.isNavOpen = ~P.state.isNavOpen]))

openNav(P) == updateNavState([P EXCEPT !.state.isNavOpen = TRUE])

\* closeNav without the reconciliation step
closeNavNoUpdate(P) == [P EXCEPT !.state.isNavOpen = FALSE]

closeNav(P) == updateNavState([P EXCEPT !.state.isNavOpen = FALSE])

openChat(P) == updateChatState([P EXCEPT !.state.isChatOpen = TRUE])

closeChat(P) == updateChatState([P EXCEPT !.state.isChatOpen = FALSE])

-----------------------------------------------------------------------------
(* UI helpers: scrollToSection, scrollToTop, showChatStatus,               *)
(* clearChatStatus, addChatMessage                                         *)

SectionTop(id) ==
    IF id \in SectionIds
    THEN Sections[CHOOSE i \in 1..Len(Sections) : Sections[i].id = id].top
    ELSE 0

headerHeight == IF Has("header") THEN HeaderHeight ELSE 0

\* window.scrollTo clamps to the top of the document
ScrollTarget(id) ==
    IF SectionTop(id) - headerHeight - 20 < 0 THEN 0
    ELSE SectionTop(id) - headerHeight - 20

scrollToSection(P, sectionId) ==
    IF ~HasId(sectionId) THEN P
    ELSE [P EXCEPT !.win.pageYOffset = ScrollTarget(sectionId),
                   !.state.currentSection = sectionId]

scrollToTop(P) == [P EXCEPT !.win.pageYOffset = 0]

showChatStatus(P, type) ==
    IF Has("chatStatus")
    THEN [Deref(P, "chatStatus") EXCEPT !.dom.chatStatus = type]
    ELSE P

clearChatStatus(P) ==
    IF Has("chatStatus")
    THEN [Deref(P, "chatStatus") EXCEPT !.dom.chatStatus = "none"]
    ELSE P

addChatMessage(P) ==
    IF Has("chatMessages")
    THEN [Deref(P, "chatMessages") EXCEPT !.dom.transcript = @ + 1]
    ELSE P


-----------------------------------------------------------------------------
(* Validation: utils.validateEmail, validateChatForm.  Strings are         *)
(* sequences of one-character strings.                                     *)

IsSpace(c) == c = " "

\* [^\s@]
Plain(c) == ~IsSpace(c) /\ c # "@"

\* The automaton of /^[^\s@]+@[^\s@]+\.[^\s@]+$/.  Positions in the
\* pattern: 0 at ^, 1 inside the first [^\s@]+, 2 after '@', 3 inside the
\* second [^\s@]+, 4 after '\.', 5 inside the third [^\s@]+ (accepting).
EmailMove(q, c) ==
    CASE q = 0 -> IF Plain(c) THEN {1} ELSE {}
      [] q = 1 -> IF Plain(c) THEN {1} ELSE IF c = "@" THEN {2} ELSE {}
      [] q = 2 -> IF Plain(c) THEN {3} ELSE {}
      [] q = 3 -> IF c = "." THEN {3, 4} ELSE IF Plain(c) THEN {3} ELSE {}
      [] q = 4 -> IF Plain(c) THEN {5} ELSE {}
      [] OTHER -> IF Plain(c) THEN {5} ELSE {}

RECURSIVE EmailRun(_, _)
EmailRun(Q, s) ==
    IF s = <<>> THEN Q
    ELSE EmailRun(UNION {EmailMove(q, Head(s)) : q \in Q}, Tail(s))

\* validateEmail accepting a string with nothing after the '.'
validateEmailNoTld(s) == EmailRun({0}, s) \cap {4, 5} # {}

\* re.test(String(email).toLowerCase()); the pattern has no letter in it,
\* so lower-casing does not change the match
validateEmail(s) == 5 \in EmailRun({0}, s)

RECURSIVE TrimLeft(_)
TrimLeft(s) ==
    IF s # <<>> /\ IsSpace(Head(s)) THEN TrimLeft(Tail(s)) ELSE s

RECURSIVE TrimRight(_)
TrimRight(s) ==
    IF s # <<>> /\ IsSpace(s[Len(s)])
    THEN TrimRight(SubSeq(s, 1, Len(s) - 1))
    ELSE s

\* String.prototype.trim
Trim(s) == TrimRight(TrimLeft(s))

\* formData.get(key)?.toString().trim(): undefined when the form has no
\* such control; undefined and the empty string are both falsy
Falsy(formData, key) ==
    key \notin DOMAIN formData \/ Trim(formData[key]) = <<>>

\* validateChatForm with the name threshold off by one
validateChatFormLongName(formData) ==
    /\ ~(Falsy(formData, "name") \/ Len(Trim(formData.name)) < 3)
    /\ ~(Falsy(formData, "email") \/ ~validateEmail(Trim(formData.email)))
    /\ ~(Falsy(formData, "message") \/ Len(Trim(formData.message)) < 10)

\* formData: the values of chat-name, chat-email and chat-message, a
\* function from the names of the controls the form has
validateChatForm(formData) ==
    /\ ~(Falsy(formData, "name") \/ Len(Trim(formData.name)) < 2)
    /\ ~(Falsy(formData, "email") \/ ~validateEmail(Trim(formData.email)))
    /\ ~(Falsy(formData, "message") \/ Len(Trim(formData.message)) < 10)

\* the checks of validateField on a form control f
FieldPasses(f) ==
    LET value == Trim(f.value)
    IN  /\ ~(f.required /\ value = <<>>)
        /\ ~(f.type = "email" /\ value # <<>> /\ ~validateEmail(value))
        /\ ~(f.minLength # 0 /\ Len(value) < f.minLength)

\* validateField that runs the email check on an empty value too
validateFieldStrictEmail(f) ==
    LET value == Trim(f.value)
        isValid ==
            /\ ~(f.required /\ value = <<>>)
            /\ ~(f.type = "email" /\ ~validateEmail(value))
            /\ ~(f.minLength # 0 /\ Len(value) < f.minLength)
    IN  [f EXCEPT !.error = ~isValid, !.ariaInvalid = BoolStr(~isValid)]

\* validateField: the control after the UI update; the return value is
\* the negation of its error class
validateField(f) ==
    [f EXCEPT !.error = ~FieldPasses(f),
              !.ariaInvalid = BoolStr(~FieldPasses(f))]

clearFieldError(f) == [f EXCEPT !.error = FALSE, !.ariaInvalid = "unset"]

\* validateForm on the newsletter form: every [required] control is
\* validated; the form's only control is its email input
validateForm(P) ==
    IF P.dom.emailInput.required
    THEN [P EXCEPT !.dom.emailInput = validateField(@)]
    ELSE P

FormIsValid(P) ==
    ~P.dom.emailInput.required \/ ~validateField(P.dom.emailInput).error

-----------------------------------------------------------------------------
(* utils.debounce and utils.throttle.  W is the wrapper, now the time of   *)
(* the call in units of the clock; a timer is [id, due, args].             *)

\* setTimeout(callback, delay): its return value is W.nextId
setTimeout(W, delay, args, now) ==
    [W EXCEPT !.pending = @ \cup {[id |-> W.nextId, due |-> now + delay,
                                   args |-> args]},
              !.nextId = @ + 1]

\* clearTimeout(id): no effect when id names no pending timer
clearTimeout(W, id) == [W EXCEPT !.pending = {t \in @ : t.id # id}]

\* executedFunction without the clearTimeout before the new timer
executedFunctionNoCancel(W, args, now) ==
    [setTimeout(W, W.wait, args, now) EXCEPT !.timeout = W.nextId]

\* the function debounce returns, called with args
executedFunction(W, args, now) ==
    LET cleared == clearTimeout(W, W.timeout)
    IN  [setTimeout(cleared, W.wait, args, now) EXCEPT !.timeout = W.nextId]

\* the callback of timer t: clearTimeout(timeout), then func(...args)
later(W, t, now) ==
    LET fired == [W EXCEPT !.pending = @ \ {t}]
        cleared == clearTimeout(fired, W.timeout)
    IN  [cleared EXCEPT !.ran = Append(@, [at |-> now, args |-> t.args])]

\* the throttled function that never closes its window
throttledNoWindow(W, args, now) ==
    [W EXCEPT !.ran = Append(@, [at |-> now, args |-> args])]

\* the function throttle returns, called with args; its timer carries no
\* arguments
throttled(W, args, now) ==
    IF ~W.inThrottle
    THEN [setTimeout(W, W.wait, "", now) EXCEPT
             !.ran = Append(@, [at |-> now, args |-> args]),
             !.inThrottle = TRUE]
    ELSE W

\* the callback of the throttle timer t
throttleReset(W, t) ==
    [W EXCEPT !.pending = @ \ {t}, !.inThrottle = FALSE]

-----------------------------------------------------------------------------
(* utils.setButtonLoading on the chat form's submit button *)

setButtonLoading(P, isLoading) ==
    IF isLoading
    THEN [P EXCEPT !.dom.btnOriginal = P.dom.btnLabel,
                   !.dom.btnLabel = "Loading...",
                   !.dom.btnDisabled = TRUE,
                   !.dom.btnBusy = TRUE]
    ELSE [P EXCEPT !.dom.btnLabel =
                       IF P.dom.btnOriginal # "unset"
                       THEN P.dom.btnOriginal ELSE @,
                   !.dom.btnDisabled = FALSE,
                   !.dom.btnBusy = FALSE]

-----------------------------------------------------------------------------
(* Event handlers *)

handleNavToggle(P) ==
    announceStateChange(
        updateNavState([P EXCEPT !.state.isNavOpen = ~P.state.isNavOpen]))

StartsWithHash(href) == href \in {"#home", "#about", "#contact"}

\* target.substring(1)
HrefId(href) ==
    CASE href = "#home" -> "home"
      [] href = "#about" -> "about"
      [] href = "#contact" -> "contact"
      [] OTHER -> ""

handleNavLinkClick(P, href) ==
    LET closed ==
            IF P.state.deviceType = "mobile" /\ StartsWithHash(href)
            THEN updateNavState([P EXCEPT !.state.isNavOpen = FALSE])
            ELSE P
    IN  IF StartsWithHash(href)
        THEN scrollToSection(closed, HrefId(href))
        ELSE closed

handleChatToggle(P) ==
    LET flipped ==
            updateChatState(
                [P EXCEPT !.state.isChatOpen = ~P.state.isChatOpen])
        timed ==
            IF flipped.state.isChatOpen /\ Has("chatForm")
            THEN [flipped EXCEPT !.timers.focus = @ + 1]
            ELSE flipped
    IN  announceStateChange(timed)

handleChatClose(P) ==
    FocusOn(updateChatState([P EXCEPT !.state.isChatOpen = FALSE]),
            "chatToggle")

\* the callback of the 100 ms timer set by handleChatToggle
focusFirstInput(P) ==
    [P EXCEPT !.dom.focus = IF Has("chatForm") THEN "chatInput" ELSE @,
              !.timers.focus = @ - 1]

\* handleKeyDown writing the flags without the reconciliation step
handleKeyDownNoUpdate(P, key) ==
    IF key = "Escape"
    THEN [P EXCEPT !.state.isNavOpen = FALSE, !.state.isChatOpen = FALSE]
    ELSE P

\* handleKeyDown whose Escape branch closes the nav only
handleKeyDownNavOnly(P, key) ==
    IF key = "Escape" /\ P.state.isNavOpen
    THEN FocusOn(updateNavState([P EXCEPT !.state.isNavOpen = FALSE]),
                 "navToggle")
    ELSE P

handleKeyDown(P, key) ==
    LET nav ==
            IF key = "Escape" /\ P.state.isNavOpen
            THEN FocusOn(
                     updateNavState([P EXCEPT !.state.isNavOpen = FALSE]),
                     "navToggle")
            ELSE P
    IN  IF key = "Escape" /\ nav.state.isChatOpen
        THEN FocusOn(
                 updateChatState([nav EXCEPT !.state.isChatOpen = FALSE]),
                 "chatToggle")
        ELSE nav

\* target: the element clicked; the nav list contains its links, the chat
\* panel contains the form and the close button
InNavList(target) == target \in {"navList", "navLink"}
InNavToggle(target) == target = "navToggle"
InChatPanel(target) == target \in {"chatPanel", "chatClose", "chatForm"}
InChatToggle(target) == target = "chatToggle"

handleClickOutside(P, target) ==
    LET nav ==
            IF /\ P.state.isNavOpen
               /\ Has("navList")
               /\ ~InNavList(target)
               /\ ~(Has("navToggle") /\ InNavToggle(target))
            THEN updateNavState([P EXCEPT !.state.isNavOpen = FALSE])
            ELSE P
    IN  IF /\ nav.state.isChatOpen
           /\ Has("chatPanel")
           /\ ~InChatPanel(target)
           /\ ~(Has("chatToggle") /\ InChatToggle(target))
        THEN updateChatState([nav EXCEPT !.state.isChatOpen = FALSE])
        ELSE nav

\* handleResize that follows the viewport only towards wider classes
handleResizeWiderOnly(P) ==
    LET newDeviceType == getDeviceType(P.win.innerWidth)
    IN  IF newDeviceType # P.state.deviceType /\ newDeviceType # "mobile"
        THEN LET Q == [P EXCEPT !.state.deviceType = newDeviceType]
             IN  IF Q.state.isNavOpen
                 THEN updateNavState([Q EXCEPT !.state.isNavOpen = FALSE])
                 ELSE Q
        ELSE P

\* handleResize that records the new device type and leaves the nav alone
handleResizeKeepsNav(P) ==
    [P EXCEPT !.state.deviceType = getDeviceType(P.win.innerWidth)]

handleResize(P) ==
    LET newDeviceType == getDeviceType(P.win.innerWidth)
    IN  IF newDeviceType # P.state.deviceType
        THEN LET Q == [P EXCEPT !.state.deviceType = newDeviceType]
             IN  IF newDeviceType # "mobile" /\ Q.state.isNavOpen
                 THEN updateNavState([Q EXCEPT !.state.isNavOpen = FALSE])
                 ELSE Q
        ELSE P

\* the sections whose extent contains the probe point
Containing(p) ==
    {i \in 1..Len(Sections) :
        p >= Sections[i].top /\ p <= Sections[i].top + Sections[i].height}

\* minDistance starts at Infinity
Infinity == -1

\* Math.abs
Abs(n) == IF n < 0 THEN -n ELSE n

\* the forEach scan from section i on, with the currentActive ("" for
\* null) and minDistance found so far
RECURSIVE ScanSections(_, _, _, _)
ScanSections(i, p, currentActive, minDistance) ==
    IF i > Len(Sections) THEN currentActive
    ELSE LET distance == Abs(p - Sections[i].top)
         IN  IF i \in Containing(p)
                    /\ (minDistance = Infinity \/ distance < minDistance)
             THEN ScanSections(i + 1, p, Sections[i].id, distance)
             ELSE ScanSections(i + 1, p, currentActive, minDistance)

\* the scan keeping the first section that contains p
CurrentActiveFirstMatch(p) ==
    IF Containing(p) = {} THEN ""
    ELSE Sections[CHOOSE i \in Containing(p) :
                      \A k \in Containing(p) : i <= k].id

\* currentActive after the forEach; "" for null
CurrentActive(p) == ScanSections(1, p, "", Infinity)

updateActiveNavLink(P) ==
    IF ~Has("navList") THEN P
    ELSE LET currentActive ==
                 CurrentActive(P.state.scrollPosition + headerHeight + 100)
         IN  [P EXCEPT
                !.dom.activeLinks =
                    {h \in NavLinkHrefs :
                        StartsWithHash(h) /\ HrefId(h) = currentActive},
                !.state.currentSection =
                    IF currentActive = "" THEN "home" ELSE currentActive]

\* utils.isInViewport(img, offset) on the page's image
isInViewport(P, offset) ==
    LET top == Image.top - P.win.pageYOffset
        bottom == top + Image.height
    IN  top <= InnerHeight - offset /\ bottom >= offset

\* the scroll path: 'img[loading="lazy"]:not(.loaded)' inside the viewport
lazyLoadImages(P) ==
    IF Image.lazy /\ ~P.dom.imgLoaded /\ isInViewport(P, 200)
    THEN [P EXCEPT !.dom.imgLoaded = TRUE]
    ELSE P

\* the observer path: the callback of imageObserver for an intersecting
\* entry
imageObserverCallback(P) ==
    [P EXCEPT !.dom.imgSrc = IF Image.dataSrc THEN "data" ELSE @,
              !.dom.imgLoaded = TRUE,
              !.dom.imgUnobserved = TRUE]

\* setupLazyLoading where the browser loads lazily by itself
setupLazyLoading(P) ==
    IF caps.nativeLazy /\ Image.lazy /\ Image.dataSrc
    THEN [P EXCEPT !.dom.imgSrc = "data"]
    ELSE P

\* utils.prefersReducedMotion()
prefersReducedMotion(P) == P.win.reducedMotion

\* initAnimations on the page's [data-animate] element
initAnimations(P) ==
    IF prefersReducedMotion(P) THEN P
    ELSE [P EXCEPT !.dom.anim.opacity = "0",
                   !.dom.anim.transform = "translateY(30px)"]

\* animateElement that looks at the flag only
animateElementFlagOnly(P) ==
    IF ~P.win.ANIMATIONS_ENABLED THEN P
    ELSE [P EXCEPT !.dom.anim.transform = "translateY(30px)",
                   !.dom.anim.opacity = "0",
                   !.timers.animStart = @ + 1]

\* animateElement on the element (data-animate="fade-up", no data-delay)
animateElement(P) ==
    IF ~P.win.ANIMATIONS_ENABLED \/ prefersReducedMotion(P) THEN P
    ELSE [P EXCEPT !.dom.anim.transform = "translateY(30px)",
                   !.dom.anim.opacity = "0",
                   !.timers.animStart = @ + 1]

\* the callback of the reveal observer for an intersecting entry
revealCallback(P) ==
    LET seen == [P EXCEPT !.dom.anim.inView = TRUE]
    IN  IF seen.win.ANIMATIONS_ENABLED THEN animateElement(seen) ELSE seen

\* the timer animateElement sets, and the 600 ms timer that one sets
animationStart(P) ==
    [P EXCEPT !.dom.anim.transition = "0.6s",
              !.dom.anim.transform = "",
              !.dom.anim.opacity = "1",
              !.timers.animStart = @ - 1,
              !.timers.animClean = @ + 1]

animationCleanup(P) ==
    [P EXCEPT !.dom.anim.transition = "",
              !.dom.anim.animated = TRUE,
              !.timers.animClean = @ - 1]

updateMotionPreference(P, reduceMotion) ==
    [P EXCEPT !.win.ANIMATIONS_ENABLED = ~reduceMotion]

\* what init() does to the page: initModules, then optimizePerformance
init(P) ==
    LET started ==
            IF P.win.ANIMATIONS_ENABLED /\ ~prefersReducedMotion(P)
            THEN initAnimations(P) ELSE P
    IN  setupLazyLoading(started)

handleScroll(P) ==
    LET scrollTop == P.win.pageYOffset
        Q == [P EXCEPT
                !.state.scrollPosition = scrollTop,
                !.dom.headerScrolled =
                    IF Has("header") THEN scrollTop > SCROLL_THRESHOLD ELSE @,
                !.dom.backToTopVisible =
                    IF Has("backToTop") THEN scrollTop > 300 ELSE @]
    IN  lazyLoadImages(updateActiveNavLink(Q))

refresh(P) == handleScroll(handleResize(P))


-----------------------------------------------------------------------------
(* Chat submission: handleChatSubmit up to the await, its continuation     *)
(* after simulateApiCall resolves, and the two timers it sets              *)

\* handleChatSubmit without the loading state on the submit button
handleChatSubmitNoLoading(P, formData) ==
    IF ~Has("chatForm") THEN P
    ELSE IF ~validateChatForm(formData) THEN showChatStatus(P, "error")
    ELSE [showChatStatus(P, "sending") EXCEPT !.timers.inflight = @ + 1,
                                              !.timers.submits = @ + 1]

\* handleChatSubmit without the validation step
handleChatSubmitNoValidation(P, formData) ==
    IF ~Has("chatForm") THEN P
    ELSE LET sending == showChatStatus(setButtonLoading(P, TRUE), "sending")
         IN  [sending EXCEPT !.timers.inflight = @ + 1,
                             !.timers.submits = @ + 1]

handleChatSubmit(P, formData) ==
    IF ~Has("chatForm") THEN P
    ELSE IF ~validateChatForm(formData) THEN showChatStatus(P, "error")
    ELSE LET sending == showChatStatus(setButtonLoading(P, TRUE), "sending")
         IN  [sending EXCEPT !.timers.inflight = @ + 1,
                             !.timers.submits = @ + 1]

\* the code after `await this.simulateApiCall()`: the try block, then the
\* finally block; each auto-close timer carries a history value: "pending",
\* "closed" once the user has closed the chat since the success, "reopened"
\* once the user has opened it again after that
chatSubmitResolved(P) ==
    LET success == showChatStatus(P, "success")
        reset == [success EXCEPT !.dom.formDirty = FALSE,
                                 !.dom.chatFields = BlankChatFields,
                                 !.dom.chatInput.value = <<>>]
        added == addChatMessage(reset)
        timed == [added EXCEPT !.timers.autoClose = Append(@, "pending")]
        done == setButtonLoading(timed, FALSE)
    IN  [done EXCEPT !.timers.clear = @ + 1,
                     !.timers.inflight = @ - 1]

\* the catch block, then the finally block
chatSubmitRejected(P) ==
    LET failed == showChatStatus(P, "failure")
        done == setButtonLoading(failed, FALSE)
    IN  [done EXCEPT !.timers.clear = @ + 1,
                     !.timers.inflight = @ - 1]

\* the continuation of handleChatSubmit once the awaited promise settles
chatSubmitSettled(P, outcome) ==
    IF outcome = "resolved" THEN chatSubmitResolved(P)
    ELSE chatSubmitRejected(P)

\* the callback of the CHAT_AUTO_CLOSE timer
autoCloseChat(P) ==
    updateChatState(
        [P EXCEPT !.state.isChatOpen = FALSE,
                  !.timers.autoClose = Tail(@)])

\* the callback of the 5000 ms timer of the finally block
clearStatusLater(P) ==
    [clearChatStatus(P) EXCEPT !.timers.clear = @ - 1]

\* History: a user operation that changed isChatOpen marks every pending
\* auto-close timer.
MarkUser(P, Q) ==
    IF P.state.isChatOpen /\ ~Q.state.isChatOpen
    THEN [Q EXCEPT !.timers.autoClose =
                       [i \in 1..Len(Q.timers.autoClose) |-> "closed"]]
    ELSE IF ~P.state.isChatOpen /\ Q.state.isChatOpen
    THEN [Q EXCEPT !.timers.autoClose =
                       [i \in 1..Len(Q.timers.autoClose) |->
                           IF Q.timers.autoClose[i] = "closed"
                           THEN "reopened" ELSE Q.timers.autoClose[i]]]
    ELSE Q

-----------------------------------------------------------------------------
(* simulateApiCall, showToast, the newsletter and generic form handlers,   *)
(* handleError                                                              *)

\* Math.random() as r / RandomDen, r in 0..RandomDen-1
Randoms == 0..(RandomDen - 1)

\* simulateApiCall whose promise rejects on some draws
simulateApiCallMayReject(r) ==
    [delay |->
        (r * (CHAT_MAX_RESPONSE_TIME - CHAT_MIN_RESPONSE_TIME)) \div RandomDen
            + CHAT_MIN_RESPONSE_TIME,
     outcome |-> IF r = 0 THEN "rejected" ELSE "resolved"]

\* simulateApiCall: the delay of its timer (whole milliseconds) and how
\* its promise settles; the executor only ever calls resolve
simulateApiCall(r) ==
    [delay |->
        (r * (CHAT_MAX_RESPONSE_TIME - CHAT_MIN_RESPONSE_TIME)) \div RandomDen
            + CHAT_MIN_RESPONSE_TIME,
     outcome |-> "resolved"]

PromiseOutcomes == {simulateApiCall(r).outcome : r \in Randoms}

\* showToast: the existing toast is removed, the new one appended
showToast(P, message) == [P EXCEPT !.dom.toast = message]

\* form.reset() on the newsletter form
resetNewsletterForm(P) == [P EXCEPT !.dom.emailInput.value = <<>>]

\* handleNewsletterSubmit up to the await; 'input[type="email"]' finds
\* the form's control only if that is its type
handleNewsletterSubmit(P) ==
    IF P.dom.emailInput.type # "email"
           \/ ~validateEmail(P.dom.emailInput.value)
    THEN showToast(P, "invalidEmail")
    ELSE [P EXCEPT !.dom.nlBusy = TRUE, !.timers.nlInflight = @ + 1]

\* the continuation of handleNewsletterSubmit once the promise settles
newsletterSettled(P, outcome) ==
    LET shown ==
            IF outcome = "resolved"
            THEN resetNewsletterForm(showToast(P, "subscribed"))
            ELSE showToast(P, "subscriptionFailed")
    IN  [shown EXCEPT !.dom.nlBusy = FALSE, !.timers.nlInflight = @ - 1]

\* handleFormSubmit on the newsletter form (one of 'form:not(.chat-form)')
handleFormSubmit(P) ==
    IF ~FormIsValid(P) THEN showToast(validateForm(P), "formErrors")
    ELSE resetNewsletterForm(showToast(validateForm(P), "formSubmitted"))

\* context.includes(needle), on sequences of characters
Includes(context, needle) ==
    \E i \in 0..(Len(context) - Len(needle)) :
        SubSeq(context, i + 1, i + Len(needle)) = needle

Chat == <<"c", "h", "a", "t">>
Global == <<"g", "l", "o", "b", "a", "l">>
PromiseCtx == <<"p", "r", "o", "m", "i", "s", "e">>

\* contexts handleError is called with: those of the two global handlers,
\* the default '', and contexts naming the chat feature
Contexts == {Global, PromiseCtx, <<>>, Chat, Chat \o <<"-">> \o Global,
             <<"l", "i", "v", "e">> \o Chat}

\* handleError showing the toast for every context
handleErrorAlwaysToast(P, context) ==
    showToast(P, "somethingWentWrong")

\* handleError: the toast part (the console and dataLayer are observed
\* by the action that calls it)
handleError(P, context) ==
    IF ~Includes(context, Chat) THEN showToast(P, "somethingWentWrong")
    ELSE P

\* chat form contents offered to the submit handler
Hello10 == <<"h", "e", "l", "l", "o", " ", "t", "h", "e", "r">>
Hello9 == <<"h", "e", "l", "l", "o", " ", "t", "h", "e">>
GoodEmail == <<"a", "@", "b", ".", "c", "o">>
BadEmail == <<"a", "@", "b">>

ChatInputs ==
    [name : {<<"A", "l">>, <<"A", " ">>},
     email : {GoodEmail, BadEmail},
     message : {Hello10, Hello9}]


-----------------------------------------------------------------------------
(* Initial states: the script has been evaluated, initApp has not run *)

CapsSet ==
    [connection : BOOLEAN, nativeLazy : BOOLEAN, io : BOOLEAN,
     dataLayer : BOOLEAN]

Faults == {"none", "query", "create"}

InitPage(docs, capset, faults, widths, doms) ==
    /\ present \in docs
    /\ caps \in capset
    /\ fault \in faults
    /\ app = "none"
    /\ elements = [defined |-> FALSE, nodes |-> {}, created |-> {}]
    /\ eventListeners = {}
    /\ attached = {}
    /\ observers = {}
    /\ activeObs = {}
    /\ boot = [count |-> 0, surface |-> FALSE, errHandlers |-> 0,
               instances |-> 0]
    /\ probe = [apiError |-> FALSE, errReports |-> 0, calls |-> <<>>,
                delay |-> 0, logged |-> 0, pushed |-> 0,
                locationchange |-> 0]
    /\ win \in [innerWidth : widths, pageYOffset : {0},
               reducedMotion : {FALSE}, ANIMATIONS_ENABLED : {TRUE},
               uncaught : {FALSE}]
    /\ state = InitialState(win.innerWidth)
    /\ dom \in doms
    /\ timers = InitialTimers

InitWith(docs, capset, faults, widths) ==
    InitPage(docs, capset, faults, widths, {InitialDom})

\* History of the public nav calls: the last two of openNav/closeNav made
\* with nothing else in between.
Called(name) ==
    probe' = [probe EXCEPT !.calls =
                 IF Len(@) < 2 THEN Append(@, name) ELSE <<@[2], name>>,
                           !.delay = 0]

Quiet == probe' = [probe EXCEPT !.calls = <<>>, !.delay = 0]

-----------------------------------------------------------------------------
(* Lifecycle: initApp, the constructor, destroy *)

\* new eJuuzApp() returns normally: setupEventListeners reads
\* this.elements.navToggle first, a TypeError when this.elements was never
\* assigned
ConstructorReturns == cacheElements.defined

\* the body of initApp
Bootstrap ==
    /\ IF app = "none" /\ ConstructorReturns
       THEN /\ app' = "live"
            /\ elements' = cacheElements
            /\ present' = cacheElements.nodes
            /\ eventListeners' = RecordedListeners(cacheElements.nodes)
            /\ attached' = setupEventListeners(cacheElements.nodes)
            /\ observers' = RecordedObservers
            /\ activeObs' = setupObservers
            /\ state' = InitialState(win.innerWidth)
       ELSE UNCHANGED <<lifeVars, present, state>>
    /\ boot' = [count |-> boot.count + 1,
                surface |-> TRUE,
                errHandlers |-> boot.errHandlers + 1,
                instances |-> IF app = "none" /\ ConstructorReturns
                              THEN boot.instances + 1 ELSE boot.instances]
    /\ dom' = IF app = "none" /\ ConstructorReturns THEN init(M).dom ELSE dom
    /\ Quiet
    /\ UNCHANGED <<caps, fault, win, timers>>

\* the first run of initApp (DOMContentLoaded, or the 0 ms timer)
initApp ==
    /\ boot.count = 0
    /\ Bootstrap

\* initApp runs again (the script's bootstrap is evaluated once more)
initAppAgain ==
    /\ boot.count > 0
    /\ boot.count < MaxBoot
    /\ Bootstrap

destroy ==
    /\ app # "none"
    /\ app' = "destroyed"
    /\ attached' = attached \ eventListeners
    /\ eventListeners' = {}
    /\ activeObs' = activeObs \ observers
    /\ observers' = {}
    /\ present' = present \ (elements.nodes \cap {"backToTop"})
    /\ Quiet
    /\ UNCHANGED <<caps, fault, elements, boot, win, state, dom, timers>>

\* the wrappers around history.pushState (and replaceState alike): each
\* observeNavigationState puts one around whatever is installed, and
\* nothing ever takes one off
HistoryWraps == boot.instances

\* a runtime error reaches every 'error' listener initApp added; each
\* calls handleError when window.eJuuzApp is set
HandlersReached == IF app # "none" THEN boot.errHandlers ELSE 0

\* handleError runs n times with the same context: n lines on the
\* console, n pushes if window.dataLayer exists
Observed(n) ==
    probe' = [probe EXCEPT !.errReports = n,
                           !.logged = n,
                           !.pushed = IF caps.dataLayer THEN n ELSE 0,
                           !.calls = <<>>,
                           !.delay = 0]

\* an 'error' event (context 'global') or an 'unhandledrejection' event
\* (context 'promise') on the window
RuntimeErrorWith(context) ==
    /\ Observed(HandlersReached)
    /\ Set(IF HandlersReached > 0 THEN handleError(M, context) ELSE M)
    /\ UNCHANGED <<envVars, lifeVars, boot>>

RuntimeError == \E context \in {Global, PromiseCtx} : RuntimeErrorWith(context)

\* window.eJuuzApp.handleError(error, context), called on the instance
HandleErrorWith(context) ==
    /\ app # "none"
    /\ Observed(1)
    /\ Set(handleError(M, context))
    /\ UNCHANGED <<envVars, lifeVars, boot>>

HandleErrorCall == \E context \in Contexts : HandleErrorWith(context)

-----------------------------------------------------------------------------
(* The public surface window.eJuuz *)

\* window.eJuuz.f(): a TypeError while window.eJuuz is undefined; a no-op
\* while window.eJuuzApp is unset; otherwise the instance method
Api(Q) ==
    IF ~boot.surface
    THEN /\ probe' = [probe EXCEPT !.apiError = TRUE, !.calls = <<>>,
                                !.delay = 0]
         /\ UNCHANGED <<state, dom, timers, win>>
    ELSE /\ IF app = "none" THEN UNCHANGED <<state, dom, timers, win>>
            ELSE Set(Q)
         /\ Quiet

ApiNav(Q, name) ==
    IF ~boot.surface
    THEN /\ probe' = [probe EXCEPT !.apiError = TRUE, !.calls = <<>>,
                                !.delay = 0]
         /\ UNCHANGED <<state, dom, timers, win>>
    ELSE /\ IF app = "none" THEN UNCHANGED <<state, dom, timers, win>>
            ELSE Set(Q)
         /\ IF app = "none" THEN Quiet ELSE Called(name)

ApiOpenNav ==
    /\ ApiNav(openNav(M), "openNav")
    /\ UNCHANGED <<envVars, lifeVars, boot>>

ApiCloseNav ==
    /\ ApiNav(closeNav(M), "closeNav")
    /\ UNCHANGED <<envVars, lifeVars, boot>>

ApiOpenChat ==
    /\ Api(MarkUser(M, openChat(M)))
    /\ UNCHANGED <<envVars, lifeVars, boot>>

ApiCloseChat ==
    /\ Api(MarkUser(M, closeChat(M)))
    /\ UNCHANGED <<envVars, lifeVars, boot>>

ApiRefresh ==
    /\ Api(refresh(M))
    /\ UNCHANGED <<envVars, lifeVars, boot>>

ApiDebug ==
    /\ Api(M)
    /\ UNCHANGED <<envVars, lifeVars, boot>>

\* ids passed to scrollToSection: section ids, ids of other elements, and
\* an id no element has
ApiIds == SectionIds \cup OtherIds \cup {"missing"}

ApiScrollToSection ==
    /\ \E id \in ApiIds : Api(scrollToSection(M, id))
    /\ UNCHANGED <<envVars, lifeVars, boot>>


-----------------------------------------------------------------------------
(* Events.  An event runs the listeners attached for it, target first,     *)
(* then those on the document when the event bubbles that far.             *)

Attached(l) == l \in attached

\* the document's click listener, reached by a click that bubbles
Bubble(P, target) ==
    IF Attached("document.click") THEN handleClickOutside(P, target) ELSE P

\* handleNavToggle stops propagation
\* the page calls history.pushState or history.replaceState: every
\* wrapper dispatches 'locationchange' once on its way out, and the
\* instance's listener, while attached, runs updateActiveNavLink for each
\* (probe.locationchange: the events this call dispatched)
HistoryPushState ==
    /\ Set(IF HistoryWraps > 0 /\ Attached("window.locationchange")
           THEN updateActiveNavLink(M) ELSE M)
    /\ probe' = [probe EXCEPT !.locationchange = HistoryWraps,
                              !.calls = <<>>, !.delay = 0]
    /\ UNCHANGED <<envVars, lifeVars, boot>>

NavToggleClick ==
    /\ Attached("navToggle.click")
    /\ dom.srNodes < MaxNodes
    /\ Set(handleNavToggle(M))
    /\ Quiet
    /\ UNCHANGED <<envVars, lifeVars, boot>>

NavLinkClick ==
    /\ Attached("navLink.click")
    /\ \E href \in NavLinkHrefs :
           Set(MarkUser(M, Bubble(handleNavLinkClick(M, href), "navLink")))
    /\ Quiet
    /\ UNCHANGED <<envVars, lifeVars, boot>>

\* handleChatToggle stops propagation
ChatToggleClick ==
    /\ Attached("chatToggle.click")
    /\ dom.srNodes < MaxNodes
    /\ state.isChatOpen \/ timers.focus < MaxFocusTimers
    /\ Set(MarkUser(M, handleChatToggle(M)))
    /\ Quiet
    /\ UNCHANGED <<envVars, lifeVars, boot>>

ChatCloseClick ==
    /\ Attached("chatClose.click")
    /\ Set(MarkUser(M, Bubble(handleChatClose(M), "chatClose")))
    /\ Quiet
    /\ UNCHANGED <<envVars, lifeVars, boot>>

ClickTargets == {"elsewhere", "chatPanel", "navList"}

DocumentClick ==
    /\ Attached("document.click")
    /\ \E target \in ClickTargets :
           Set(MarkUser(M, handleClickOutside(M, target)))
    /\ Quiet
    /\ UNCHANGED <<envVars, lifeVars, boot>>

BackToTopClick ==
    /\ Attached("backToTop.click")
    /\ Set(MarkUser(M, Bubble(scrollToTop(M), "elsewhere")))
    /\ Quiet
    /\ UNCHANGED <<envVars, lifeVars, boot>>

Keys == {"Escape", "Enter"}

\* a keydown event with e.key = key reaches the document
KeyDownWith(key) ==
    /\ Attached("document.keydown")
    /\ Set(MarkUser(M, handleKeyDown(M, key)))
    /\ Quiet
    /\ UNCHANGED <<envVars, lifeVars, boot>>

KeyDown == \E key \in Keys : KeyDownWith(key)

\* the user has filled in the form; the submit event carries formData
\* probe.delay: the delay simulateApiCall drew if the handler called it
Drew(called, r) ==
    probe' = [probe EXCEPT
                 !.calls = <<>>,
                 !.delay = IF called THEN simulateApiCall(r).delay ELSE 0]

ChatSubmitWith(formData) ==
    /\ Attached("chatForm.submit")
    /\ timers.submits < MaxSubmits
    /\ Set(handleChatSubmit([M EXCEPT !.dom.formDirty = TRUE], formData))
    /\ \E r \in Randoms : Drew(timers'.inflight > timers.inflight, r)
    /\ UNCHANGED <<envVars, lifeVars, boot>>

ChatSubmit == \E formData \in ChatInputs : ChatSubmitWith(formData)

\* the submit event of the chat form as the user has filled it in
ChatFormSubmit == ChatSubmitWith(dom.chatFields)

\* the Promise of simulateApiCall settles
TransportResolve ==
    /\ timers.inflight > 0
    /\ \E outcome \in PromiseOutcomes : Set(chatSubmitSettled(M, outcome))
    /\ Quiet
    /\ UNCHANGED <<envVars, lifeVars, boot>>

\* a submit event on the newsletter form: its listeners run in the order
\* they were added, handleNewsletterSubmit (up to its await) and then
\* handleFormSubmit
NewsletterSubmit ==
    /\ Attached("newsletterForm.submit") \/ Attached("form.submit")
    /\ timers.nlInflight < MaxSubmits
    /\ LET first == IF Attached("newsletterForm.submit")
                    THEN handleNewsletterSubmit(M) ELSE M
           second == IF Attached("form.submit")
                     THEN handleFormSubmit(first) ELSE first
       IN  Set(second)
    /\ \E r \in Randoms : Drew(timers'.nlInflight > timers.nlInflight, r)
    /\ UNCHANGED <<envVars, lifeVars, boot>>

\* the promise awaited by handleNewsletterSubmit settles
NewsletterSettle ==
    /\ timers.nlInflight > 0
    /\ \E outcome \in PromiseOutcomes : Set(newsletterSettled(M, outcome))
    /\ Quiet
    /\ UNCHANGED <<envVars, lifeVars, boot>>

\* the user types an address into the newsletter form
EmailType ==
    /\ "newsletterForm" \in present
    /\ \E v \in {GoodEmail, BadEmail} \ {dom.emailInput.value} :
           dom' = [dom EXCEPT !.emailInput.value = v]
    /\ Quiet
    /\ UNCHANGED <<envVars, lifeVars, boot, win, state, timers>>

\* the toast's 5000 ms timer (or its close button) removes it
ToastExpire ==
    /\ dom.toast # "none"
    /\ dom' = [dom EXCEPT !.toast = "none"]
    /\ Quiet
    /\ UNCHANGED <<envVars, lifeVars, boot, win, state, timers>>

\* values typed into a chat form control
FieldValues ==
    {<<>>, <<" ">>, <<"a">>, <<"a", "b", " ">>, GoodEmail, BadEmail,
     <<" ">> \o GoodEmail}

\* 'blur' on a chat form control
FieldBlur ==
    /\ Attached("chatInput.blur")
    /\ dom' = [dom EXCEPT !.chatInput = validateField(@)]
    /\ Quiet
    /\ UNCHANGED <<envVars, lifeVars, boot, win, state, timers>>

\* 'input' on a chat form control: the user has changed its value
FieldInput ==
    /\ Attached("chatInput.input")
    /\ \E v \in FieldValues \ {dom.chatInput.value} :
           dom' = [dom EXCEPT !.chatInput =
                                  clearFieldError([@ EXCEPT !.value = v])]
    /\ Quiet
    /\ UNCHANGED <<envVars, lifeVars, boot, win, state, timers>>

AutoCloseFire ==
    /\ timers.autoClose # <<>>
    /\ Set(autoCloseChat(M))
    /\ Quiet
    /\ UNCHANGED <<envVars, lifeVars, boot>>

StatusClearFire ==
    /\ timers.clear > 0
    /\ Set(clearStatusLater(M))
    /\ Quiet
    /\ UNCHANGED <<envVars, lifeVars, boot>>

FocusFire ==
    /\ timers.focus > 0
    /\ Set(focusFirstInput(M))
    /\ Quiet
    /\ UNCHANGED <<envVars, lifeVars, boot>>

\* the 1000 ms timer of announceStateChange removes the node
AnnouncementExpire ==
    /\ dom.srNodes > 0
    /\ dom' = [dom EXCEPT !.srNodes = @ - 1]
    /\ Quiet
    /\ UNCHANGED <<envVars, lifeVars, boot, win, state, timers>>

\* the window is resized; the debounced handler restarts its timer
Resize ==
    /\ \E w \in Widths \ {win.innerWidth} :
           win' = [win EXCEPT !.innerWidth = w]
    /\ timers' = [timers EXCEPT
                     !.resize = IF Attached("window.resize") THEN TRUE ELSE @]
    /\ Quiet
    /\ UNCHANGED <<envVars, lifeVars, boot, state, dom>>

\* the RESIZE_DEBOUNCE timer fires
ResizeFire ==
    /\ timers.resize
    /\ Set(handleResize([M EXCEPT !.timers.resize = FALSE]))
    /\ Quiet
    /\ UNCHANGED <<envVars, lifeVars, boot>>

\* the page is scrolled to offset y (or a scroll event follows scrollTo);
\* the throttled handler runs unless inside its window
Scroll ==
    /\ \E y \in Offsets \cup {win.pageYOffset} :
           LET P == [M EXCEPT !.win.pageYOffset = y]
           IN  IF Attached("window.scroll") /\ ~timers.inThrottle
               THEN Set(handleScroll([P EXCEPT !.timers.inThrottle = TRUE]))
               ELSE Set(P)
    /\ Quiet
    /\ UNCHANGED <<envVars, lifeVars, boot>>

\* the THROTTLE_DELAY timer fires
ThrottleExpire ==
    /\ timers.inThrottle
    /\ timers' = [timers EXCEPT !.inThrottle = FALSE]
    /\ Quiet
    /\ UNCHANGED <<envVars, lifeVars, boot, win, state, dom>>

\* Time.  A timer runs when the clock reaches its due time, before any
\* other event of that instant and before the clock moves on.
Due(W) == {t \in W.pending : t.due <= timers.now}

Waits == 1..MaxWait

CallArgs == {"a", "b"}

Tick ==
    /\ timers.now < MaxTime
    /\ Due(timers.deb) = {}
    /\ Due(timers.thr) = {}
    /\ timers' = [timers EXCEPT !.now = @ + 1]
    /\ Quiet
    /\ UNCHANGED <<envVars, lifeVars, boot, win, state, dom>>

\* utils.debounce(func, wait)
MakeDebounced ==
    /\ ~timers.deb.made
    /\ \E w \in Waits :
           timers' = [timers EXCEPT !.deb.made = TRUE, !.deb.wait = w]
    /\ Quiet
    /\ UNCHANGED <<envVars, lifeVars, boot, win, state, dom>>

\* the debounced function is called
DebouncedCall ==
    /\ timers.deb.made
    /\ Due(timers.deb) = {}
    /\ Len(timers.deb.calls) < MaxCalls
    /\ \E args \in CallArgs :
           timers' =
               [timers EXCEPT
                   !.deb = [executedFunction(@, args, timers.now) EXCEPT
                               !.calls = Append(@, [at |-> timers.now,
                                                    args |-> args])]]
    /\ Quiet
    /\ UNCHANGED <<envVars, lifeVars, boot, win, state, dom>>

\* a timer set by the debounced function is due
DebounceFire ==
    /\ \E t \in Due(timers.deb) :
           timers' = [timers EXCEPT !.deb = later(@, t, timers.now)]
    /\ Quiet
    /\ UNCHANGED <<envVars, lifeVars, boot, win, state, dom>>

\* utils.throttle(func, limit)
MakeThrottled ==
    /\ ~timers.thr.made
    /\ \E w \in Waits :
           timers' = [timers EXCEPT !.thr.made = TRUE, !.thr.wait = w]
    /\ Quiet
    /\ UNCHANGED <<envVars, lifeVars, boot, win, state, dom>>

\* the throttled function is called
ThrottledCall ==
    /\ timers.thr.made
    /\ Due(timers.thr) = {}
    /\ Len(timers.thr.calls) < MaxCalls
    /\ \E args \in CallArgs :
           timers' =
               [timers EXCEPT
                   !.thr = [throttled(@, args, timers.now) EXCEPT
                               !.calls = Append(@, [at |-> timers.now,
                                                    args |-> args])]]
    /\ Quiet
    /\ UNCHANGED <<envVars, lifeVars, boot, win, state, dom>>

\* the timer set by the throttled function is due
ThrottleReset ==
    /\ \E t \in Due(timers.thr) :
           timers' = [timers EXCEPT !.thr = throttleReset(@, t)]
    /\ Quiet
    /\ UNCHANGED <<envVars, lifeVars, boot, win, state, dom>>

\* navigator.connection fires 'change': updateNetworkStatus
ConnectionChange ==
    /\ Attached("connection.change")
    /\ \E isSlow \in BOOLEAN : dom' = [dom EXCEPT !.slowConnection = isSlow]
    /\ Quiet
    /\ UNCHANGED <<envVars, lifeVars, boot, win, state, timers>>

\* the image crosses the viewport's edge (IntersectionObserver default
\* options) while imageObserver observes it: the callback runs later than
\* the scroll listeners of the same frame
Intersecting ==
    /\ Image.top - win.pageYOffset < InnerHeight
    /\ Image.top - win.pageYOffset + Image.height > 0

LazyImageIntersects ==
    /\ "lazy" \in activeObs
    /\ Image.dataSrc
    /\ ~dom.imgUnobserved
    /\ Intersecting
    /\ Set(imageObserverCallback(M))
    /\ Quiet
    /\ UNCHANGED <<envVars, lifeVars, boot>>

\* the [data-animate] element enters the reveal observer's root
RevealIntersects ==
    /\ "reveal" \in activeObs
    /\ timers.animStart + timers.animClean < MaxAnimations
    /\ Set(revealCallback(M))
    /\ Quiet
    /\ UNCHANGED <<envVars, lifeVars, boot>>

AnimationStartFire ==
    /\ timers.animStart > 0
    /\ Set(animationStart(M))
    /\ Quiet
    /\ UNCHANGED <<envVars, lifeVars, boot>>

AnimationCleanupFire ==
    /\ timers.animClean > 0
    /\ Set(animationCleanup(M))
    /\ Quiet
    /\ UNCHANGED <<envVars, lifeVars, boot>>

\* the user's reduced-motion preference changes; the media query's
\* listener runs while it is registered
MotionChange ==
    /\ LET P == [M EXCEPT !.win.reducedMotion = ~@]
       IN  Set(IF "mqMotion" \in activeObs
               THEN updateMotionPreference(P, P.win.reducedMotion)
               ELSE P)
    /\ Quiet
    /\ UNCHANGED <<envVars, lifeVars, boot>>


-----------------------------------------------------------------------------
(* Specifications *)

StdCaps ==
    [connection |-> TRUE, nativeLazy |-> FALSE, io |-> TRUE,
     dataLayer |-> TRUE]

\* Lifecycle: bootstrap, teardown, the public surface, runtime errors and
\* the events of the listeners and observers that are not nav or chat.
InitLife == InitWith({FullDoc, FullDoc \ {"backToTop"}}, CapsSet, Faults, {767})

NextLife ==
    \/ initApp
    \/ initAppAgain
    \/ destroy
    \/ RuntimeError
    \/ HandleErrorCall
    \/ ToastExpire
    \/ NavToggleClick
    \/ AnnouncementExpire
    \/ ConnectionChange
    \/ HistoryPushState

SpecLife == InitLife /\ [][NextLife]_vars

\* The public surface, called before the bootstrap, after it, after a
\* failed construction and after teardown.
InitApi == InitWith({FullDoc}, {StdCaps}, Faults, {767})

NextApi ==
    \/ initApp
    \/ destroy
    \/ ApiOpenNav
    \/ ApiCloseNav
    \/ ApiOpenChat
    \/ ApiCloseChat
    \/ ApiRefresh
    \/ ApiDebug
    \/ ApiScrollToSection

SpecApi == InitApi /\ [][NextApi]_vars

\* Navigation: the operations that read or write isNavOpen, deviceType or
\* the nav DOM.  refresh() acts on them through handleResize, which
\* ResizeFire runs; a click on the chat close button or on back-to-top
\* acts on them through handleClickOutside, which DocumentClick runs.
InitNav ==
    InitWith({FullDoc \ {"backToTop"}, FullDoc \ {"backToTop", "nav"}},
             {StdCaps}, {"none"}, Widths)

NextNav ==
    \/ initApp
    \/ destroy
    \/ ApiOpenNav
    \/ ApiCloseNav
    \/ NavToggleClick
    \/ NavLinkClick
    \/ DocumentClick
    \/ KeyDown
    \/ Resize
    \/ ResizeFire
    \/ AnnouncementExpire

SpecNav == InitNav /\ [][NextNav]_vars

\* Chat: every operation that reads or writes isChatOpen, the chat DOM or
\* the submission timers.
InitChat ==
    InitWith({FullDoc, FullDoc \ {"chatStatus", "chatMessages"}},
             {StdCaps}, {"none"}, {1024})

NextChat ==
    \/ initApp
    \/ destroy
    \/ ApiOpenChat
    \/ ApiCloseChat
    \/ ChatToggleClick
    \/ ChatCloseClick
    \/ DocumentClick
    \/ KeyDown
    \/ ChatSubmit
    \/ TransportResolve
    \/ AutoCloseFire
    \/ StatusClearFire
    \/ FocusFire
    \/ AnnouncementExpire

SpecChat == InitChat /\ [][NextChat]_vars

\* Scrolling: every operation that writes currentSection or scrollPosition.
InitScroll == InitWith(Docs, {StdCaps}, {"none"}, {767, 1024})

NextScroll ==
    \/ initApp
    \/ destroy
    \/ ApiScrollToSection
    \/ ApiRefresh
    \/ NavLinkClick
    \/ BackToTopClick
    \/ Scroll
    \/ ThrottleExpire

SpecScroll == InitScroll /\ [][NextScroll]_vars

\* Both widgets together, on a document that has all the nav and chat
\* elements: every operation that writes isNavOpen or isChatOpen except
\* the auto-close timer of a chat submission, which SpecChat has.
InitWidgets == InitWith({FullDoc \ {"backToTop"}}, {StdCaps}, {"none"}, {767})

NextWidgets ==
    \/ initApp
    \/ ApiOpenNav
    \/ ApiCloseNav
    \/ ApiOpenChat
    \/ ApiCloseChat
    \/ NavToggleClick
    \/ NavLinkClick
    \/ ChatToggleClick
    \/ ChatCloseClick
    \/ DocumentClick
    \/ KeyDown
    \/ Resize
    \/ ResizeFire
    \/ FocusFire
    \/ AnnouncementExpire

SpecWidgets == InitWidgets /\ [][NextWidgets]_vars

\* Field validation: a chat form control with every combination of the
\* attributes validateField reads, edited and blurred by the user.
FieldControls ==
    [required : BOOLEAN, type : {"text", "email"}, minLength : {-1, 0, 3},
     value : FieldValues, error : {FALSE}, ariaInvalid : {"unset"}]

InitField ==
    InitPage({FullDoc}, {StdCaps}, {"none"}, {1024},
             {[InitialDom EXCEPT !.chatInput = f] : f \in FieldControls})

NextField ==
    \/ initApp
    \/ destroy
    \/ FieldBlur
    \/ FieldInput

SpecField == InitField /\ [][NextField]_vars

\* Chat form validation: the form as the user filled it in, with values on
\* both sides of each threshold, padded with blanks, and with a control
\* missing from the form.
ChatNames == {<<"A">>, <<"A", "l">>, <<" ", "A", " ">>, <<"A", "l", " ">>, <<>>}
ChatEmails == {GoodEmail, BadEmail, <<" ">> \o GoodEmail, <<>>}
ChatMessages == {Hello10, Hello9, Hello9 \o <<" ">>, <<" ">> \o Hello10, <<>>}

ChatForms ==
    [name : ChatNames, email : ChatEmails, message : ChatMessages]
    \cup [email : {GoodEmail}, message : {Hello10}]
    \cup [name : {<<"A", "l">>}, message : {Hello10}]
    \cup [name : {<<"A", "l">>}, email : {GoodEmail}]

InitChatForm ==
    InitPage({FullDoc, FullDoc \ {"chatStatus", "chatMessages"}},
             {StdCaps}, {"none"}, {1024},
             {[InitialDom EXCEPT !.chatFields = fd] : fd \in ChatForms})

NextChatForm ==
    \/ initApp
    \/ ChatToggleClick
    \/ ChatFormSubmit
    \/ TransportResolve
    \/ StatusClearFire
    \/ AutoCloseFire

SpecChatForm == InitChatForm /\ [][NextChatForm]_vars

\* Device classification: the page is loaded at widths on both sides of
\* each breakpoint and then resized.
DeviceWidths == {0, 320, 767, 768, 769, 1023, 1024, 1025, MaxWidth}

InitDevice ==
    InitWith({FullDoc \ {"backToTop"}}, {StdCaps}, {"none"}, DeviceWidths)

NextDevice ==
    \/ initApp
    \/ Resize
    \/ ResizeFire
    \/ NavToggleClick
    \/ AnnouncementExpire

SpecDevice == InitDevice /\ [][NextDevice]_vars

\* Email validation: the newsletter form's email input holds any string
\* of at most MaxStrLen characters over a letter, '@', '.' and a blank, or
\* one of three longer addresses, when the form is submitted.
Alphabet == {"a", "@", ".", " "}

Strings == UNION {[1..n -> Alphabet] : n \in 0..MaxStrLen}

SpacedEmail == <<"a", " ", "b", "@", "c", ".", "c", "o">>

EmailValues == Strings \cup {GoodEmail, BadEmail, SpacedEmail}

InitEmail ==
    InitPage({FullDoc}, {StdCaps}, {"none"}, {1024},
             {[InitialDom EXCEPT !.emailInput.value = v] : v \in EmailValues})

NextEmail ==
    \/ initApp
    \/ NewsletterSubmit
    \/ NewsletterSettle
    \/ ToastExpire

SpecEmail == InitEmail /\ [][NextEmail]_vars

\* The simulated transport: both forms that await simulateApiCall, and
\* the timers their continuations set.  A timer that has been set fires.
InitTransport ==
    InitPage({FullDoc}, {StdCaps}, {"none"}, {1024},
             {[InitialDom EXCEPT !.emailInput.value = v] :
                  v \in {GoodEmail, BadEmail}})

NextTransport ==
    \/ initApp
    \/ ChatSubmit
    \/ TransportResolve
    \/ AutoCloseFire
    \/ StatusClearFire
    \/ NewsletterSubmit
    \/ NewsletterSettle
    \/ EmailType
    \/ ToastExpire

SpecTransport ==
    /\ InitTransport
    /\ [][NextTransport]_vars
    /\ WF_vars(TransportResolve)
    /\ WF_vars(NewsletterSettle)


\* Lazy loading: the scroll path and the observer path of the image, in
\* browsers with and without native lazy loading and IntersectionObserver.
InitImages ==
    InitWith({FullDoc},
             [connection : {TRUE}, nativeLazy : BOOLEAN, io : BOOLEAN,
              dataLayer : {TRUE}],
             {"none"}, {1024})

NextImages ==
    \/ initApp
    \/ destroy
    \/ Scroll
    \/ ThrottleExpire
    \/ LazyImageIntersects

SpecImages == InitImages /\ [][NextImages]_vars

\* Entrance animation: the reveal observer, the timers of animateElement
\* and the reduced-motion preference, which may change at any time.
InitReveal ==
    InitWith({FullDoc},
             [connection : {TRUE}, nativeLazy : {FALSE}, io : BOOLEAN,
              dataLayer : {TRUE}],
             {"none"}, {1024})

NextReveal ==
    \/ initApp
    \/ destroy
    \/ MotionChange
    \/ RevealIntersects
    \/ AnimationStartFire
    \/ AnimationCleanupFire

SpecReveal == InitReveal /\ [][NextReveal]_vars

\* utils.debounce: a wrapper around a recording function, called at any
\* times of the clock with any of the arguments.
NextDebounce ==
    \/ MakeDebounced
    \/ DebouncedCall
    \/ DebounceFire
    \/ Tick

SpecDebounce == InitWidgets /\ [][NextDebounce]_vars

\* utils.throttle, likewise.
NextThrottle ==
    \/ MakeThrottled
    \/ ThrottledCall
    \/ ThrottleReset
    \/ Tick

SpecThrottle == InitWidgets /\ [][NextThrottle]_vars

-----------------------------------------------------------------------------
(* Teardown *)

\* C1: after destroy() the listener registry is empty and no listener the
\* instance attached during its lifetime is still attached to its target.
C1_DestroyDetachesEveryListener ==
    app = "destroyed" => eventListeners = {} /\ attached = {}

\* C2: after destroy() every observer the instance created (reveal
\* observer, lazy-load fallback observer, both media-query listeners) is
\* disconnected or unregistered.
C2_DestroyDisconnectsEveryObserver ==
    app = "destroyed" => observers = {} /\ activeObs = {}

-----------------------------------------------------------------------------
(* Chat auto-close *)

AutoCloseFires == Len(timers'.autoClose) < Len(timers.autoClose)

\* C3: the auto-close timer closes the chat only if the user has neither
\* closed nor reopened it since the success: a panel the user closed and
\* reopened while the timer was pending is still open after it fires.
C3_AutoCloseRespectsUser ==
    [][(AutoCloseFires /\ Head(timers.autoClose) = "reopened"
            /\ state.isChatOpen)
           => state'.isChatOpen]_vars

-----------------------------------------------------------------------------
(* Active section *)

\* C4: state.currentSection is always the id of a section element of the
\* document or the default "home".
C4_CurrentSectionIsSection ==
    state.currentSection \in SectionIds \cup {"home"}

-----------------------------------------------------------------------------
(* Nav round trip and idempotence *)

RoundTrip == closeNav(openNav(M))

\* C5 as stated: openNav(); closeNav() leaves isNavOpen equal to its
\* pre-call value and removes the body scroll-lock exactly when the device
\* type is mobile.
C5_RoundTripRestoresNav ==
    app # "none" =>
        /\ RoundTrip.state.isNavOpen = state.isNavOpen
        /\ state.deviceType = "mobile" => RoundTrip.dom.overflow = ""
        /\ state.deviceType # "mobile" => RoundTrip.dom.overflow = dom.overflow

\* C5 amended: openNav(); closeNav() leaves isNavOpen false, which is the
\* pre-call value only if the nav was closed before; it removes the body
\* scroll-lock when the device type is mobile and leaves the style as it
\* was otherwise.
C5_RoundTripClosesNav ==
    app # "none" =>
        /\ ~RoundTrip.state.isNavOpen
        /\ state.deviceType = "mobile" => RoundTrip.dom.overflow = ""
        /\ state.deviceType # "mobile" => RoundTrip.dom.overflow = dom.overflow
        /\ probe.calls = <<"openNav", "closeNav">> =>
               /\ ~state.isNavOpen
               /\ state.deviceType = "mobile" => dom.overflow = ""

C5_Witness ==
    /\ probe.calls = <<"openNav", "closeNav">>
    /\ state.deviceType = "mobile"
    /\ Has("nav")
    /\ ~state.isNavOpen
    /\ ~dom.navMobileActive
    /\ dom.overflow = ""

\* C6: openNav(); openNav() yields the same state and DOM as one openNav():
\* isNavOpen true, classes and aria-expanded set once, no node created.
C6_OpenNavIdempotent ==
    app # "none" =>
        /\ openNav(openNav(M)) = openNav(M)
        /\ openNav(M).state.isNavOpen
        /\ openNav(M).dom.srNodes = dom.srNodes
        /\ (probe.calls # <<>> /\ probe.calls[Len(probe.calls)] = "openNav")
               => openNav(M) = M

C6_Witness ==
    /\ probe.calls = <<"openNav", "openNav">>
    /\ state.isNavOpen
    /\ dom.navMobileActive
    /\ dom.toggleActive
    /\ dom.navAriaExpanded = "true"

-----------------------------------------------------------------------------
(* Bootstrap and public surface *)

\* C7: initApp constructs at most one instance however often it runs, and
\* every run after the first changes nothing: one 'error' listener on the
\* window, so one runtime error reaches handleError exactly once.
C7_BootstrapIsIdempotent ==
    /\ boot.instances <= 1
    /\ boot.errHandlers <= 1
    /\ probe.errReports <= 1

PublicCall == boot' = boot /\ app' = app

\* C8: a public function of window.eJuuz can be called at any point of the
\* page's life without raising an error, and changes nothing while no
\* instance exists.
C8_PublicSurfaceAlwaysSafe ==
    [][PublicCall =>
           /\ ~probe'.apiError
           /\ app = "none" => UNCHANGED <<state, dom, timers, win>>]_vars

\* C9: when cacheElements throws, the rest of startup still runs: the
\* constructor returns and the global instance exists afterwards.
C9_StartupSurvivesCacheError ==
    (boot.count > 0 /\ (CacheThrowsInQuery \/ CacheThrowsInCreate))
        => app # "none"

-----------------------------------------------------------------------------
(* Chat submission *)

ValidForm == [name |-> <<"A", "l">>, email |-> GoodEmail, message |-> Hello10]

ChatWidgetPresent == Has("chatStatus") /\ Has("chatMessages")

\* C10: a submission with valid name, valid email and a message of at
\* least 10 characters first shows 'sending' with the submit button
\* disabled; when the simulated call resolves it shows 'success', appends
\* exactly one transcript entry, resets the form and re-enables the button.
C10_ValidSubmissionFlow ==
    [][ChatWidgetPresent =>
           /\ ChatSubmitWith(ValidForm) =>
                  /\ dom'.chatStatus = "sending"
                  /\ dom'.btnDisabled
                  /\ dom'.transcript = dom.transcript
                  /\ timers'.inflight = timers.inflight + 1
           /\ TransportResolve =>
                  /\ dom.transcript + timers.inflight = timers.submits
                  /\ dom'.chatStatus = "success"
                  /\ dom'.transcript = dom.transcript + 1
                  /\ ~dom'.formDirty
                  /\ ~dom'.btnDisabled]_vars

C10_Witness ==
    /\ ChatWidgetPresent
    /\ timers.submits = 1
    /\ timers.inflight = 0
    /\ dom.chatStatus = "success"
    /\ dom.transcript = 1
    /\ ~dom.formDirty
    /\ ~dom.btnDisabled

\* C11: a chat submission whose composite validation fails never enters
\* Sending: it shows the inline error and leaves everything else as it was:
\* no simulated call started, the submit button not disabled, no transcript
\* entry, the form not reset, no timer scheduled.
C11_InvalidSubmissionStaysIdle ==
    [][(~validateChatForm(dom.chatFields) /\ ChatFormSubmit) =>
           /\ Has("chatStatus") => dom'.chatStatus = "error"
           /\ timers' = timers
           /\ dom'.btnDisabled = dom.btnDisabled
           /\ dom'.btnLabel = dom.btnLabel
           /\ timers.inflight = 0 => ~dom'.btnDisabled
           /\ dom'.transcript = dom.transcript
           /\ dom'.chatFields = dom.chatFields
           /\ dom'.formDirty
           /\ state' = state]_vars

C11_Witness ==
    /\ Has("chatStatus")
    /\ dom.chatStatus = "error"
    /\ dom.formDirty
    /\ timers.submits = 0
    /\ timers.inflight = 0
    /\ timers.autoClose = <<>>
    /\ ~dom.btnDisabled
    /\ dom.transcript = 0

-----------------------------------------------------------------------------
(* The simulated transport *)

EntersSending ==
    \/ timers'.inflight > timers.inflight
    \/ timers'.nlInflight > timers.nlInflight

\* C12: every submission that enters Sending draws a delay d with
\* CHAT_MIN_RESPONSE_TIME <= d <= CHAT_MAX_RESPONSE_TIME and leaves Sending
\* into Success (chat status 'success', newsletter toast 'subscribed'): the
\* 'something went wrong' chat status and the 'Subscription failed' toast
\* never appear, and no chat submission stays in Sending for ever.
C12_TransportAlwaysSucceeds ==
    /\ [][(EntersSending =>
                /\ probe'.delay >= CHAT_MIN_RESPONSE_TIME
                /\ probe'.delay <= CHAT_MAX_RESPONSE_TIME)
           /\ (timers'.inflight < timers.inflight =>
                /\ Has("chatStatus") => dom'.chatStatus = "success"
                /\ Len(timers'.autoClose) = Len(timers.autoClose) + 1)
           /\ (timers'.nlInflight < timers.nlInflight =>
                dom'.toast = "subscribed")
           /\ dom'.chatStatus # "failure"
           /\ dom'.toast # "subscriptionFailed"]_vars
    /\ (timers.inflight > 0) ~> (timers.inflight = 0)

C12_Witness ==
    /\ timers.submits > 0
    /\ timers.inflight = 0
    /\ timers.nlInflight = 0
    /\ dom.chatStatus = "success"
    /\ dom.toast = "subscribed"
    /\ ~dom.nlBusy
    /\ ~dom.btnDisabled

-----------------------------------------------------------------------------
(* The two flags and their DOM reflection *)

\* the operations that are not nav or chat transitions
OtherOperation ==
    \/ Resize
    \/ ResizeFire
    \/ Scroll
    \/ ThrottleExpire
    \/ KeyDown
    \/ DocumentClick
    \/ NavLinkClick
    \/ ChatSubmit
    \/ TransportResolve
    \/ AutoCloseFire
    \/ StatusClearFire
    \/ FocusFire
    \/ AnnouncementExpire

\* C13: isNavOpen and isChatOpen are changed only by the nav and chat
\* transitions (toggle, open, close): resize, scroll, key press, document
\* click, nav-link click, form submission and every timer callback leave
\* both flags unchanged.
C13_OnlyTransitionsWriteFlags ==
    [][OtherOperation =>
           /\ state'.isNavOpen = state.isNavOpen
           /\ state'.isChatOpen = state.isChatOpen]_vars

WidgetsPresent ==
    /\ Has("nav")
    /\ Has("navToggle")
    /\ Has("chatPanel")
    /\ Has("chatToggle")

\* C14: between callbacks the state and the DOM agree (nav and chat
\* elements present): once a handler has written isNavOpen, the nav has
\* class 'mobile-active' iff isNavOpen and the nav toggle's aria-expanded
\* equals isNavOpen; once a handler has written isChatOpen, the panel's
\* aria-hidden equals not isChatOpen and the chat toggle's aria-expanded
\* equals isChatOpen.
C14_StateAndDomAgree ==
    WidgetsPresent =>
        /\ (state.isNavOpen \/ dom.navAriaExpanded # "unset") =>
               /\ dom.navMobileActive = state.isNavOpen
               /\ dom.navAriaExpanded = BoolStr(state.isNavOpen)
        /\ (state.isChatOpen \/ dom.chatAriaExpanded # "unset") =>
               /\ dom.chatAriaHidden = BoolStr(~state.isChatOpen)
               /\ dom.chatAriaExpanded = BoolStr(state.isChatOpen)

C14_Witness ==
    /\ WidgetsPresent
    /\ state.deviceType = "tablet"
    /\ ~state.isNavOpen
    /\ ~dom.navMobileActive
    /\ dom.navAriaExpanded = "false"
    /\ state.isChatOpen
    /\ dom.chatAriaHidden = "false"
    /\ dom.chatAriaExpanded = "true"

-----------------------------------------------------------------------------
(* Active-section tracking *)

\* scroll offsets the rule is evaluated at: those the page is scrolled to,
\* and offsets that put the probe point on a section boundary and past the
\* last section
ProbeOffsets == Offsets \cup {349, 351, 1049, 1050, 1051, 1850, 1851}

\* the sections whose vertical extent contains p
Around(p) ==
    {sec \in {Sections[i] : i \in 1..Len(Sections)} :
        sec.top <= p /\ p <= sec.top + sec.height}

\* the rule of C15: of the sections around p the one whose top edge is
\* nearest to p; "home" when there is none
Selected(p) ==
    IF Around(p) = {} THEN "home"
    ELSE (CHOOSE sec \in Around(p) :
              \A other \in Around(p) : p - sec.top <= p - other.top).id

\* a scroll tick: the throttled handler ran
ScrollTick == Scroll /\ ~timers.inThrottle /\ timers'.inThrottle

-----------------------------------------------------------------------------
(* Field validation *)

NoMinimum(f) == f.minLength <= 0

-----------------------------------------------------------------------------
(* Chat form validation *)

Given(formData, key) == key \in DOMAIN formData

\* C17: validateChatForm accepts a submission iff the trimmed name has
\* length >= 2, the trimmed email matches the email pattern and the
\* trimmed message has length >= 10: a 2-character name passes and a
\* 1-character name fails, a 10-character message passes and a 9-character
\* message fails, and a missing field fails.
C17_ChatFormThresholds ==
    [][/\ ChatFormSubmit =>
              (timers'.inflight = timers.inflight + 1 <=>
                   /\ Given(dom.chatFields, "name")
                   /\ Given(dom.chatFields, "email")
                   /\ Given(dom.chatFields, "message")
                   /\ Len(Trim(dom.chatFields.name)) >= 2
                   /\ validateEmail(Trim(dom.chatFields.email))
                   /\ Len(Trim(dom.chatFields.message)) >= 10)
       /\ validateChatForm(ValidForm)
       /\ ~validateChatForm([ValidForm EXCEPT !.name = <<"A">>])
       /\ ~validateChatForm([ValidForm EXCEPT !.message = Hello9])
       /\ ~validateChatForm([name |-> <<"A", "l">>, email |-> GoodEmail])
       /\ ~validateChatForm([name |-> <<"A", "l">>, message |-> Hello10])
       /\ ~validateChatForm([email |-> GoodEmail, message |-> Hello10])]_vars

C17_Witness ==
    /\ dom.chatFields = ValidForm
    /\ timers.inflight = 1
    /\ dom.chatStatus = "sending"
    /\ dom.btnDisabled

-----------------------------------------------------------------------------
(* Device classification *)

\* C18: for every viewport width w the classification is mobile iff
\* w < 768, tablet iff 768 <= w < 1024 and desktop otherwise; the device
\* type of a live instance is the classification of the window's width
\* whenever no resize is waiting to be handled.
C18_DeviceClassification ==
    /\ \A w \in 0..MaxWidth :
           /\ getDeviceType(w) = "mobile" <=> w < 768
           /\ getDeviceType(w) = "tablet" <=> (768 =< w /\ w < 1024)
           /\ getDeviceType(w) = "desktop" <=> w >= 1024
    /\ (app = "live" /\ ~timers.resize) =>
           /\ state.deviceType = "mobile" <=> win.innerWidth < 768
           /\ state.deviceType = "tablet" <=>
                  (768 =< win.innerWidth /\ win.innerWidth < 1024)
           /\ state.deviceType = "desktop" <=> win.innerWidth >= 1024

C18_Witness ==
    /\ app = "live"
    /\ ~timers.resize
    /\ win.innerWidth = 768
    /\ state.deviceType = "tablet"
    /\ getDeviceType(767) = "mobile"
    /\ getDeviceType(1023) = "tablet"
    /\ getDeviceType(1024) = "desktop"

-----------------------------------------------------------------------------
(* Email validation *)

\* non-empty, with neither whitespace nor '@'
Clean(t) == t # <<>> /\ \A k \in 1..Len(t) : t[k] \notin {" ", "@"}

\* s = L @ D . T with L, D and T clean
LocalAtDomainDotTld(s) ==
    \E i \in 1..Len(s) : \E j \in (i + 1)..Len(s) :
        /\ s[i] = "@"
        /\ s[j] = "."
        /\ Clean(SubSeq(s, 1, i - 1))
        /\ Clean(SubSeq(s, i + 1, j - 1))
        /\ Clean(SubSeq(s, j + 1, Len(s)))

\* C19: validateEmail(s) is true iff s has the form L@D.T with L, D and T
\* non-empty and containing neither whitespace nor '@'; "a@b.co" is
\* accepted, "a@b" and "a b@c.co" are rejected; a newsletter submission
\* starts the simulated call iff the address has that form.
C19_EmailPattern ==
    /\ [](/\ validateEmail(dom.emailInput.value)
                  <=> LocalAtDomainDotTld(dom.emailInput.value)
           /\ validateEmail(GoodEmail)
           /\ ~validateEmail(BadEmail)
           /\ ~validateEmail(SpacedEmail))
    /\ [][(NewsletterSubmit /\ Attached("newsletterForm.submit")) =>
               (timers'.nlInflight = timers.nlInflight + 1
                    <=> LocalAtDomainDotTld(dom.emailInput.value))]_vars

C19_Witness ==
    /\ dom.emailInput.value = SpacedEmail
    /\ dom.toast = "formErrors"
    /\ dom.emailInput.error
    /\ timers.nlInflight = 0
    /\ ~dom.nlBusy

-----------------------------------------------------------------------------
(* Error handling *)

\* the contexts that name the chat feature
NamesChat(context) ==
    context \in {Chat, Chat \o <<"-">> \o Global, <<"l", "i", "v", "e">> \o Chat}

SinkPushes(n) == IF caps.dataLayer THEN n ELSE 0

\* C20: handleError(error, context) logs the error, pushes it to the
\* analytics sink when the sink exists, and shows the generic error toast
\* iff the context does not name the chat feature; an error caught by the
\* global 'error' or 'unhandledrejection' handler of a page that has an
\* instance always produces the toast, with or without the sink.
C20_HandleErrorToast ==
    [][/\ \A context \in Contexts :
              HandleErrorWith(context) =>
                  /\ probe'.logged = 1
                  /\ probe'.pushed = SinkPushes(1)
                  /\ NamesChat(context) => dom'.toast = dom.toast
                  /\ ~NamesChat(context) => dom'.toast = "somethingWentWrong"
       /\ \A context \in {Global, PromiseCtx} :
              (RuntimeErrorWith(context) /\ app # "none") =>
                  /\ probe'.logged >= 1
                  /\ probe'.pushed = SinkPushes(probe'.logged)
                  /\ dom'.toast = "somethingWentWrong"]_vars

C20_Witness ==
    /\ app = "live"
    /\ ~caps.dataLayer
    /\ probe.logged = 1
    /\ probe.pushed = 0
    /\ dom.toast = "somethingWentWrong"

-----------------------------------------------------------------------------
(* Deferred callbacks after teardown *)

\* a callback the instance deferred runs: the auto-close timer, the
\* status-clear timer, the deferred chat focus, or the continuation of a
\* submission whose promise settles
DeferredChatCallback ==
    \/ AutoCloseFire
    \/ StatusClearFire
    \/ FocusFire
    \/ TransportResolve

\* C21: after destroy(), a deferred callback the instance scheduled before
\* it (chat auto-close, chat status clear, deferred chat focus, pending
\* transport continuation) changes neither the widget state nor the DOM
\* when it fires.
C21_DestroyedCallbacksAreInert ==
    [][(app = "destroyed" /\ DeferredChatCallback) =>
           (state' = state /\ dom' = dom)]_vars

-----------------------------------------------------------------------------
(* Focus management of the chat *)

ChatOpens == ~state.isChatOpen /\ state'.isChatOpen

ChatCloses == state.isChatOpen /\ ~state'.isChatOpen

\* C22: with the chat toggle and the chat form in the document, every
\* step that opens the chat schedules the deferred focus transfer, every
\* step that closes it leaves focus on the chat toggle, and the deferred
\* focus callback leaves focus where it is when the chat is closed by the
\* time it fires.
C22_ChatFocusFollowsTransitions ==
    [][(Has("chatToggle") /\ Has("chatForm")) =>
           /\ ChatOpens => timers'.focus = timers.focus + 1
           /\ ChatCloses => dom'.focus = "chatToggle"
           /\ (FocusFire /\ ~state.isChatOpen) => dom'.focus = dom.focus]_vars

-----------------------------------------------------------------------------
(* The submit button during a submission *)

\* C23: while a chat or newsletter submission is in flight the form's
\* submit button is disabled and aria-busy; once none is in flight the
\* button is enabled, not aria-busy, and carries the label it had before
\* the first submission, also when submissions of one form overlap.
C23_ButtonFollowsSubmission ==
    /\ timers.inflight > 0 => dom.btnDisabled /\ dom.btnBusy
    /\ timers.inflight = 0 =>
           /\ ~dom.btnDisabled
           /\ ~dom.btnBusy
           /\ dom.btnLabel = InitialDom.btnLabel
    /\ timers.nlInflight > 0 <=> dom.nlBusy

-----------------------------------------------------------------------------
(* Active navigation link *)

\* the hash links whose target is section id
LinksTo(id) == {h \in NavLinkHrefs : StartsWithHash(h) /\ HrefId(h) = id}

\* C24: after a scroll tick (the throttled handler ran) on a page with
\* nav links, the hash links that carry 'active' and aria-current are
\* those whose target is state.currentSection, and they name at most one
\* section; "home" as the fallback of an empty scan included.
C24_ActiveLinkIsCurrentSection ==
    [][(ScrollTick /\ Has("navList")) =>
           /\ dom'.activeLinks = LinksTo(state'.currentSection)
           /\ Cardinality({HrefId(h) : h \in dom'.activeLinks}) <= 1]_vars

-----------------------------------------------------------------------------
(* Device type and the debounced resize handler *)

DeviceTypeCurrent == state.deviceType = getDeviceType(win.innerWidth)

\* C25: when the debounce timer of the resize handler fires, deviceType
\* becomes the classification of the current window width, so a live
\* instance with no resize timer pending has a deviceType that matches the
\* window; while the timer is pending deviceType may be stale.
C25_DeviceTypeEventuallyCurrent ==
    /\ []((app = "live" /\ ~timers.resize) => DeviceTypeCurrent)
    /\ [][ResizeFire => DeviceTypeCurrent']_vars

\* the handler has run after a resize from mobile to tablet with the nav
\* open: the body keeps the overflow the open nav gave it
C25_Witness ==
    /\ app = "live"
    /\ ~timers.resize
    /\ win.innerWidth = 768
    /\ state.deviceType = "tablet"
    /\ dom.overflow = "hidden"

-----------------------------------------------------------------------------
(* The nav on a non-mobile viewport *)

NavDomClosed ==
    /\ ~dom.navMobileActive
    /\ ~dom.toggleActive
    /\ dom.navAriaExpanded # "true"

BecomesNonMobile ==
    state'.deviceType # state.deviceType /\ state'.deviceType # "mobile"

OpensNavNonMobile ==
    ~state.isNavOpen /\ state'.isNavOpen /\ state'.deviceType # "mobile"

\* C26: a step in which deviceType becomes tablet or desktop ends with
\* isNavOpen false and the nav DOM closed, and isNavOpen turns true in a
\* non-mobile state only by the nav toggle or openNav() acting while the
\* device type is already that non-mobile one.
C26_NavClosedOnNonMobile ==
    [][/\ BecomesNonMobile => (~state'.isNavOpen /\ NavDomClosed')
       /\ OpensNavNonMobile =>
              /\ state.deviceType = state'.deviceType
              /\ NavToggleClick \/ ApiOpenNav]_vars

\* the resize handler has closed a nav that was open on mobile
C26_Witness ==
    /\ Has("nav")
    /\ win.innerWidth = 1024
    /\ state.deviceType = "desktop"
    /\ ~state.isNavOpen
    /\ dom.navAriaExpanded = "false"
    /\ dom.overflow = "hidden"
    /\ NavDomClosed

-----------------------------------------------------------------------------
(* Debounce and throttle *)

\* call i of the wrapper ends a burst: no call follows it within wait
BurstEnd(W, i) ==
    i = Len(W.calls) \/ W.calls[i + 1].at - W.calls[i].at >= W.wait

\* the burst ends whose quiet interval is over at time upto
EndsBy(W, upto) ==
    {i \in 1..Len(W.calls) : BurstEnd(W, i) /\ W.calls[i].at + W.wait <= upto}

\* the runs of the wrapped function a debounce owes at time upto: one per
\* burst, wait after its last call, with that call's arguments
RunsOwed(W, upto) ==
    LET E == EndsBy(W, upto)
        Nth(k) == CHOOSE i \in E : Cardinality({j \in E : j <= i}) = k
    IN  [k \in 1..Cardinality(E) |->
            [at |-> W.calls[Nth(k)].at + W.wait, args |-> W.calls[Nth(k)].args]]

\* C27: a debounced function runs the wrapped function exactly once per
\* burst of calls (each less than wait after the one before), wait after
\* the last call of the burst and with that call's arguments; a new call
\* cancels the pending invocation, so at most one is ever pending and it
\* is the last call's.
C27_DebounceRunsOncePerBurst ==
    LET W == timers.deb
    IN  /\ Cardinality(W.pending) <= 1
        /\ \A t \in W.pending :
               /\ t.args = W.calls[Len(W.calls)].args
               /\ t.due = W.calls[Len(W.calls)].at + W.wait
        /\ W.ran = RunsOwed(W, IF Due(W) = {} THEN timers.now
                               ELSE timers.now - 1)

\* a burst of three calls with different arguments has run once
C27_Witness ==
    LET W == timers.deb
    IN  /\ Len(W.calls) = 3
        /\ \A i \in 1..2 : W.calls[i + 1].at - W.calls[i].at < W.wait
        /\ W.calls[1].at < W.calls[3].at
        /\ W.calls[2].args # W.calls[3].args
        /\ W.ran = <<[at |-> W.calls[3].at + W.wait, args |-> W.calls[3].args]>>

\* a call of the throttled function is made
ThrottledCalled == Len(timers'.thr.calls) > Len(timers.thr.calls)

LastCall(W) == W.calls[Len(W.calls)]

\* C28: a throttled function runs the wrapped function at most once in
\* any interval of length limit (two runs are at least limit apart); a
\* call of an idle wrapper runs it at once with the call's arguments; a
\* call inside the window is dropped: it changes nothing in the wrapper
\* and no later step runs the wrapped function for it.
C28_ThrottleRunsAtMostOncePerLimit ==
    /\ [](\A i, j \in 1..Len(timers.thr.ran) :
             i < j => timers.thr.ran[j].at - timers.thr.ran[i].at
                          >= timers.thr.wait)
    /\ [][/\ (ThrottledCalled /\ ~timers.thr.inThrottle) =>
                 timers'.thr.ran =
                     Append(timers.thr.ran,
                            [at |-> timers.now,
                             args |-> LastCall(timers'.thr).args])
          /\ (ThrottledCalled /\ timers.thr.inThrottle) =>
                 [timers'.thr EXCEPT !.calls = timers.thr.calls] = timers.thr
          /\ ~ThrottledCalled => timers'.thr.ran = timers.thr.ran]_vars

\* two runs limit apart, and a call between them that was dropped
C28_Witness ==
    LET W == timers.thr
    IN  /\ Len(W.calls) = 3
        /\ Len(W.ran) = 2
        /\ W.ran[2].at = W.ran[1].at + W.wait
        /\ W.calls[2].at < W.ran[2].at
        /\ W.calls[2].args # W.calls[1].args

-----------------------------------------------------------------------------
(* Lazy loading *)

\* C29: once the image carries the 'loaded' class no later step, of the
\* observer path or of the scroll path, changes its src or its classes,
\* whichever path marked it.
C29_LoadedImageIsLeftAlone ==
    [][dom.imgLoaded =>
           (dom'.imgLoaded /\ dom'.imgSrc = dom.imgSrc)]_vars

-----------------------------------------------------------------------------
(* Entrance animation *)

AnimationOff == win.reducedMotion \/ ~win.ANIMATIONS_ENABLED

\* C30: when the reduced-motion preference is active or the animation
\* flag is off, the reveal callback for an intersecting element changes
\* none of the element's styles and sets no timer.
C30_NoAnimationWhenMotionReduced ==
    [][(RevealIntersects /\ AnimationOff) =>
           /\ dom'.anim.transform = dom.anim.transform
           /\ dom'.anim.opacity = dom.anim.opacity
           /\ dom'.anim.transition = dom.anim.transition
           /\ timers' = timers]_vars

\* the element came into view on a page loaded with reduced motion: it is
\* marked in-view and has no inline style
C30_Witness ==
    /\ app = "live"
    /\ win.reducedMotion
    /\ dom.anim.inView
    /\ dom.anim.opacity = ""
    /\ dom.anim.transform = ""
    /\ timers.animStart = 0
    /\ timers.animClean = 0

\* Missing elements: up to MaxMissing of the optional single-node elements
\* absent from the document, with the handlers, timers and public methods
\* that touch an element other than the one their listener sits on.
OptionalElements == ElementNames \ {"backToTop"}

\* the sets of elements left out of the document: every null check of
\* the class reads one or two of the cached elements
MaxMissing == 2
MissingSets == {S \in SUBSET OptionalElements : Cardinality(S) <= MaxMissing}

InitMissing ==
    InitPage({FullDoc \ S : S \in MissingSets},
             {StdCaps}, {"none"}, {767},
             {[InitialDom EXCEPT
                 !.chatFields = [name |-> <<"A", "l">>, email |-> GoodEmail,
                                 message |-> Hello10]]})

NextMissing ==
    \/ initApp
    \/ ApiOpenNav
    \/ ApiOpenChat
    \/ ChatCloseClick
    \/ DocumentClick
    \/ KeyDown
    \/ ChatFormSubmit
    \/ TransportResolve

SpecMissing == InitMissing /\ [][NextMissing]_vars

-----------------------------------------------------------------------------
(* Missing optional elements *)

Missing(name) == name \notin present

\* the DOM of a feature whose element is missing is as the page loaded it
FeatureUntouched ==
    /\ Missing("nav") \/ Missing("navToggle") =>
           /\ dom.navMobileActive = InitialDom.navMobileActive
           /\ dom.toggleActive = InitialDom.toggleActive
           /\ dom.navAriaExpanded = InitialDom.navAriaExpanded
           /\ dom.overflow = InitialDom.overflow
    /\ Missing("chatPanel") \/ Missing("chatToggle") =>
           /\ dom.chatAriaHidden = InitialDom.chatAriaHidden
           /\ dom.chatAriaExpanded = InitialDom.chatAriaExpanded
    /\ Missing("chatToggle") => dom.focus # "chatToggle"
    /\ Missing("chatStatus") => dom.chatStatus = InitialDom.chatStatus
    /\ Missing("chatMessages") => dom.transcript = InitialDom.transcript
    /\ Missing("chatForm") =>
           /\ timers.submits = 0
           /\ dom.btnDisabled = InitialDom.btnDisabled
           /\ dom.btnLabel = InitialDom.btnLabel

-----------------------------------------------------------------------------
(* Body scroll-lock *)

\* C32: at the end of every handler the body is scroll-locked (overflow
\* 'hidden') only while isNavOpen is true.
C32_ScrollLockOnlyWhileNavOpen ==
    dom.overflow = "hidden" => state.isNavOpen

-----------------------------------------------------------------------------
(* Newsletter submission *)

-----------------------------------------------------------------------------
(* The status line of overlapping chat submissions *)

\* C34: the 'sending' status of a submission stays displayed until that
\* submission completes: a status-clear timer that fires while it is
\* displayed (set by an earlier submission) leaves it alone.
C34_StatusOutlivesEarlierTimer ==
    [][(StatusClearFire /\ dom.chatStatus = "sending") =>
           dom'.chatStatus = "sending"]_vars

-----------------------------------------------------------------------------
(* Elements hidden by initAnimations *)

\* C35: an element that initAnimations hid becomes visible once it
\* intersects the viewport: the reveal callback running for it while its
\* opacity is 0 leaves the timer that sets opacity 1 pending, whatever
\* the reduced-motion preference and the animation flag are by then.
C35_HiddenElementIsRevealed ==
    [][(RevealIntersects /\ dom.anim.opacity = "0") =>
           timers'.animStart > 0]_vars

-----------------------------------------------------------------------------
(* What destroy removes from the document *)

\* C36: destroy() removes from the document the elements the instance
\* created and no others: a back-to-top control that was in the document
\* before initialization is still there afterwards.
C36_DestroyRemovesOnlyCreated ==
    [][destroy => present' = present \ elements.created]_vars

-----------------------------------------------------------------------------
(* The wrappers around history.pushState and history.replaceState *)

\* C37: a pushState or replaceState call dispatches exactly one
\* 'locationchange' event while an instance is live, and none before
\* initialization or after destroy().
C37_HistoryWrapEndsWithInstance ==
    [][HistoryPushState =>
           probe'.locationchange = IF app = "live" THEN 1 ELSE 0]_vars

-----------------------------------------------------------------------------
(* The last scroll event of a burst *)

\* C38: the last scroll event of a burst is not lost: when the throttle
\* window closes with the scroll listener attached, state.scrollPosition
\* is the offset the page has been scrolled to.
C38_LastScrollIsHandled ==
    [][(ThrottleExpire /\ Attached("window.scroll")) =>
           state'.scrollPosition = win'.pageYOffset]_vars

-----------------------------------------------------------------------------
(* Escape *)

ChatDomClosed ==
    /\ dom.chatAriaHidden # "false"
    /\ dom.chatAriaExpanded # "true"

\* C39: after an Escape keydown isNavOpen and isChatOpen are both false
\* and the nav and chat DOM are in their closed state, whatever the flags
\* were before; a keydown of any other key leaves both flags as they were.
C39_EscapeClosesBoth ==
    [][/\ KeyDownWith("Escape") =>
              /\ ~state'.isNavOpen
              /\ ~state'.isChatOpen
              /\ NavDomClosed'
              /\ ChatDomClosed'
       /\ \A key \in Keys \ {"Escape"} :
              KeyDownWith(key) =>
                  /\ state'.isNavOpen = state.isNavOpen
                  /\ state'.isChatOpen = state.isChatOpen]_vars

\* Escape has closed both: the nav and the chat were written closed and
\* the focus went to the chat toggle, the last of the two focus() calls
C39_Witness ==
    /\ ~state.isNavOpen
    /\ ~state.isChatOpen
    /\ dom.navAriaExpanded = "false"
    /\ dom.chatAriaExpanded = "false"
    /\ dom.chatAriaHidden = "true"
    /\ dom.focus = "chatToggle"

=============================================================================
